---- MODULE Spec2Model ----
(***************************************************************************)
(* Model of the ENS declaration batch updater:                             *)
(*   xml_utils.update_xml_directory / update_xml_file,                      *)
(*   config_manager.get_ref_num, and the GUI handlers                       *)
(*   run_embedded_xml_update / confirm_update / _show_results.              *)
(*                                                                         *)
(* Python strings are modelled as tuples of one-character strings, so that *)
(* upper(), lower(), endswith(), strptime() and strftime() are computed    *)
(* character by character.                                                  *)
(***************************************************************************)
EXTENDS Integers, Sequences, FiniteSets, TLC

\* ------------------------------------------------------------------------
\* Bounds of the model
\* ------------------------------------------------------------------------
\* Number of files of TreeFiles that exist on disk.
MaxFiles == 4
\* Number of I/O faults (read error, failed open, failed write) the
\* environment injects during one run.
MaxFaults == 1
\* Number of XML files whose content is not the complete declaration
\* (a document in another namespace, or a file that is not well-formed).
MaxOddFiles == 1

\* How many times the same update is run over a directory in SpecFile.
MaxRuns == 2

\* How many rows each database table is given in SpecDb.
MaxVessels == 2
MaxVoyages == 2
MaxEntries == 2

\* How far from today the arrival dates of SpecAlert lie.
MaxDaysAhead == 8
MaxDaysPast == 3

\* ------------------------------------------------------------------------
\* Characters and strings
\* ------------------------------------------------------------------------
DigitChars == <<"0", "1", "2", "3", "4", "5", "6", "7", "8", "9">>
LowerChars == <<"a", "b", "c", "d", "e", "f", "g", "h", "i", "j", "k", "l", "m",
                "n", "o", "p", "q", "r", "s", "t", "u", "v", "w", "x", "y", "z">>
UpperChars == <<"A", "B", "C", "D", "E", "F", "G", "H", "I", "J", "K", "L", "M",
                "N", "O", "P", "Q", "R", "S", "T", "U", "V", "W", "X", "Y", "Z">>

IsDigit(c) == \E i \in DOMAIN DigitChars : DigitChars[i] = c
DigitVal(c) == (CHOOSE i \in DOMAIN DigitChars : DigitChars[i] = c) - 1
NonZeroDigit(c) == IsDigit(c) /\ c # "0"

\* str.upper() and str.lower(), one character at a time.
UpperChar(c) ==
    IF \E i \in DOMAIN LowerChars : LowerChars[i] = c
    THEN UpperChars[CHOOSE i \in DOMAIN LowerChars : LowerChars[i] = c]
    ELSE c
LowerChar(c) ==
    IF \E i \in DOMAIN UpperChars : UpperChars[i] = c
    THEN LowerChars[CHOOSE i \in DOMAIN UpperChars : UpperChars[i] = c]
    ELSE c
Upper(s) == [i \in 1..Len(s) |-> UpperChar(s[i])]
Lower(s) == [i \in 1..Len(s) |-> LowerChar(s[i])]

\* str.endswith(suffix)
EndsWith(s, suffix) ==
    /\ Len(s) >= Len(suffix)
    /\ SubSeq(s, Len(s) - Len(suffix) + 1, Len(s)) = suffix

SetMin(S) == CHOOSE x \in S : \A y \in S : x <= y

Range(seq) == {seq[i] : i \in 1..Len(seq)}

\* ------------------------------------------------------------------------
\* datetime.strptime(arrival_date_str, '%Y-%m-%d')
\* ------------------------------------------------------------------------
\* %m : 1[0-2] | 0[1-9] | [1-9]
MonthToken(t) ==
    \/ Len(t) = 2 /\ t[1] = "1" /\ t[2] \in {"0", "1", "2"}
    \/ Len(t) = 2 /\ t[1] = "0" /\ NonZeroDigit(t[2])
    \/ Len(t) = 1 /\ NonZeroDigit(t[1])

\* %d : 3[0-1] | [1-2]\d | 0[1-9] | [1-9] | " "[1-9]
DayToken(t) ==
    \/ Len(t) = 2 /\ t[1] = "3" /\ t[2] \in {"0", "1"}
    \/ Len(t) = 2 /\ t[1] \in {"1", "2"} /\ IsDigit(t[2])
    \/ Len(t) = 2 /\ t[1] = "0" /\ NonZeroDigit(t[2])
    \/ Len(t) = 1 /\ NonZeroDigit(t[1])
    \/ Len(t) = 2 /\ t[1] = " " /\ NonZeroDigit(t[2])

\* int() of a one- or two-character token (a leading blank counts as 0).
TokenVal(t) ==
    IF Len(t) = 1 THEN DigitVal(t[1])
    ELSE (IF t[1] = " " THEN 0 ELSE DigitVal(t[1])) * 10 + DigitVal(t[2])

YearVal(s) ==
    DigitVal(s[1]) * 1000 + DigitVal(s[2]) * 100 + DigitVal(s[3]) * 10 + DigitVal(s[4])

IsLeap(y) == (y % 4 = 0) /\ ((y % 100 # 0) \/ (y % 400 = 0))

DaysInMonth(y, m) ==
    IF m = 2 THEN (IF IsLeap(y) THEN 29 ELSE 28)
    ELSE IF m \in {4, 6, 9, 11} THEN 30 ELSE 31

NoDate == [ok |-> FALSE, year |-> 0, month |-> 0, day |-> 0]

\* The lengths k of the month token for which the whole string matches
\* \d\d\d\d-<month>-<day> with nothing left over ("unconverted data remains"
\* is a ValueError too).
MonthSplits(s) ==
    {k \in {1, 2} :
        /\ Len(s) >= 7 + k
        /\ \A i \in 1..4 : IsDigit(s[i])
        /\ s[5] = "-"
        /\ MonthToken(SubSeq(s, 6, 5 + k))
        /\ s[6 + k] = "-"
        /\ DayToken(SubSeq(s, 7 + k, Len(s)))}

\* ok = FALSE stands for ValueError.  The datetime constructor rejects year 0
\* and a day beyond the month's length.
strptime(s) ==
    IF MonthSplits(s) = {} THEN NoDate
    ELSE LET k == CHOOSE k \in MonthSplits(s) : TRUE
             y == YearVal(s)
             m == TokenVal(SubSeq(s, 6, 5 + k))
             d == TokenVal(SubSeq(s, 7 + k, Len(s)))
         IN  IF y >= 1 /\ d <= DaysInMonth(y, m)
             THEN [ok |-> TRUE, year |-> y, month |-> m, day |-> d]
             ELSE NoDate

\* ------------------------------------------------------------------------
\* dt.strftime('%Y%m%d') + "0000"
\* ------------------------------------------------------------------------
RECURSIVE Decimal(_)
Decimal(n) ==
    IF n < 10 THEN <<DigitChars[n + 1]>>
    ELSE Decimal(n \div 10) \o <<DigitChars[(n % 10) + 1]>>

Pad2(n) == <<DigitChars[(n \div 10) + 1], DigitChars[(n % 10) + 1]>>

Pad4(n) ==
    <<DigitChars[(n \div 1000) + 1], DigitChars[((n \div 100) % 10) + 1],
      DigitChars[((n \div 10) % 10) + 1], DigitChars[(n % 10) + 1]>>

\* %Y is delegated to the C library: glibc prints the year without leading
\* zeros, other libraries pad it to four digits.  padsYear says which.
strftime(dt, padsYear) ==
    (IF padsYear THEN Pad4(dt.year) ELSE Decimal(dt.year))
        \o Pad2(dt.month) \o Pad2(dt.day)

FormattedDate(dt, padsYear) == strftime(dt, padsYear) \o <<"0", "0", "0", "0">>

\* ------------------------------------------------------------------------
\* String literals of the program
\* ------------------------------------------------------------------------
GBLIV == <<"G", "B", "L", "I", "V">>
GBFXT == <<"G", "B", "F", "X", "T">>
TinGB == <<"G", "B", "2", "4", "3", "4", "0", "8", "2", "8", "4", "0", "0", "0">>
TinXI == <<"X", "I", "2", "4", "3", "4", "0", "8", "2", "8", "4", "0", "0", "0">>
DotXml == <<".", "x", "m", "l">>
NotAvailable == <<"N", "/", "A">>
NoText == <<>>

\* ------------------------------------------------------------------------
\* ElementTree documents
\* ------------------------------------------------------------------------
\* A parsed document is the sequence of its elements in document order
\* (preorder); node 1 is the root.  ns says whether the element is bound to
\* http://www.ksdsoftware.com/Schema/ICS/EntrySummaryDeclaration, parent is
\* the index of the parent element (0 for the root).
Node(tag, ns, parent, text) ==
    [tag |-> tag, ns |-> ns, parent |-> parent, text |-> text]

\* elem.findall("ns:tag") : the children of n with that qualified name.
ChildrenNamed(doc, n, tag) ==
    {i \in 1..Len(doc) : doc[i].parent = n /\ doc[i].ns /\ doc[i].tag = tag}

\* First element, in iteration order, reached from n by the child steps.
RECURSIVE FirstMatch(_, _, _)
FirstMatch(doc, n, steps) ==
    IF steps = <<>> THEN n
    ELSE LET good == {c \in ChildrenNamed(doc, n, Head(steps)) :
                         FirstMatch(doc, c, Tail(steps)) # 0}
         IN  IF good = {} THEN 0
             ELSE FirstMatch(doc, SetMin(good), Tail(steps))

\* root.find(".//ns:EntrySummaryDeclaration/ns:s1/.../ns:sk", ns).
\* ".//" iterates over the descendants of the root, never the root itself.
\* 0 stands for None.
Find(doc, steps) ==
    LET esds == {e \in 2..Len(doc) :
                    /\ doc[e].ns
                    /\ doc[e].tag = "EntrySummaryDeclaration"
                    /\ FirstMatch(doc, e, steps) # 0}
    IN  IF esds = {} THEN 0 ELSE FirstMatch(doc, SetMin(esds), steps)

\* Variant of update_val that creates the element below the root when the
\* path leads nowhere.
update_val_CreatesMissing(doc, steps, value) ==
    LET node == Find(doc, steps)
    IN  IF node # 0 THEN [doc EXCEPT ![node].text = value]
        ELSE Append(doc, Node(steps[Len(steps)], TRUE, 1, value))

\* update_val(xpath, value)
update_val(doc, steps, value) ==
    LET node == Find(doc, steps)
    IN  IF node # 0 THEN [doc EXCEPT ![node].text = value] ELSE doc

\* Index of the last element of the subtree of n.
SubtreeEnd(doc, n) ==
    LET after == {j \in (n + 1)..Len(doc) : doc[j].parent < n}
    IN  IF after = {} THEN Len(doc) ELSE SetMin(after) - 1

\* Variant of AppendChild that puts the new element before the children the
\* parent already has.
AppendChild_First(doc, parent, node) ==
    LET pos == parent + 1
        Shift(nd) == IF nd.parent >= pos
                     THEN [nd EXCEPT !.parent = nd.parent + 1] ELSE nd
    IN  [i \in 1..(Len(doc) + 1) |->
            IF i < pos THEN doc[i]
            ELSE IF i = pos THEN node
            ELSE Shift(doc[i - 1])]

\* parent.append(new_node) : the new element becomes the last child.
AppendChild(doc, parent, node) ==
    LET pos == SubtreeEnd(doc, parent) + 1
        Shift(nd) == IF nd.parent >= pos
                     THEN [nd EXCEPT !.parent = nd.parent + 1] ELSE nd
    IN  [i \in 1..(Len(doc) + 1) |->
            IF i < pos THEN doc[i]
            ELSE IF i = pos THEN node
            ELSE Shift(doc[i - 1])]

\* Variant of ensure_child_node that appends without looking for the child.
ensure_child_node_AlwaysAppends(doc, parentSteps, childTag, defaultValue) ==
    LET parent == Find(doc, parentSteps)
    IN  IF parent = 0 THEN doc
        ELSE AppendChild(doc, parent, Node(childTag, TRUE, parent, defaultValue))

\* ensure_child_node(parent_xpath, child_tag, default_value)
ensure_child_node(doc, parentSteps, childTag, defaultValue) ==
    LET parent == Find(doc, parentSteps)
    IN  IF parent = 0 THEN doc
        ELSE IF ChildrenNamed(doc, parent, childTag) # {} THEN doc
        ELSE AppendChild(doc, parent, Node(childTag, TRUE, parent, defaultValue))

\* ------------------------------------------------------------------------
\* config_manager
\* ------------------------------------------------------------------------
\* The reference numbers configured for the ports, when settings.json holds
\* a JSON object.
RefGBLIV == <<"G", "B", "0", "0", "0", "0", "6", "0">>
PortMappings == [p \in {GBLIV} |-> RefGBLIV]

\* The mapping after the reference number of GBLIV was edited in the
\* settings tab: settings.json in state "edited".
RefEdited == <<"G", "B", "0", "0", "0", "0", "6", "1">>
PortMappingsEdited == [p \in {GBLIV} |-> RefEdited]

\* States of settings.json: absent, not JSON, a JSON object with
\* "port_mappings", or JSON that is not an object (a list).
SettingsStates == {"missing", "invalid_json", "object", "list"}

\* load_settings() : the "port_mappings" dictionary that results, as a
\* function from port codes to reference numbers.
load_settings(settings) ==
    IF settings = "object" THEN PortMappings
    ELSE IF settings = "edited" THEN PortMappingsEdited
    ELSE [p \in {} |-> NoText]

\* Variant of get_ref_num that looks the port up in upper case.
get_ref_num_IgnoresCase(settings, port_code) ==
    IF settings = "list"
    THEN [raised |-> TRUE, value |-> NoText]
    ELSE LET mappings == load_settings(settings)
         IN  [raised |-> FALSE,
              value  |-> IF Upper(port_code) \in DOMAIN mappings
                         THEN mappings[Upper(port_code)] ELSE NoText]

\* get_ref_num(port_code).  settings.get raises AttributeError when the
\* JSON document is not an object.
get_ref_num(settings, port_code) ==
    IF settings = "list"
    THEN [raised |-> TRUE, value |-> NoText]
    ELSE LET mappings == load_settings(settings)
         IN  [raised |-> FALSE,
              value  |-> IF port_code \in DOMAIN mappings
                         THEN mappings[port_code] ELSE NoText]

\* ------------------------------------------------------------------------
\* xml_utils.update_xml_file
\* ------------------------------------------------------------------------
\* Variant of tin_value that compares the port as typed, without upper().
tin_value_CaseSensitive(port) ==
    IF port \in {GBLIV, GBFXT} THEN TinGB ELSE TinXI

\* Rule of step 6: the TIN by port of declaration.
tin_value(port) ==
    IF Upper(port) \in {GBLIV, GBFXT} THEN TinGB ELSE TinXI

\* Steps 1 to 3 of update_xml_file, before the reference number lookup.
ApplyHeader(doc, voyage_num, imo, port) ==
    LET d1 == update_val(doc, <<"ConveyanceRefNum">>, voyage_num)
        d2 == update_val(d1, <<"IdeOfMeaOfTraCro">>, imo)
    IN  update_val(d2, <<"DeclPlace">>, port)

\* The rest of the in-memory update: RefNum (only for a non-empty ref_num),
\* steps 4, 5 and 6.
ApplyRest(doc, port, formatted_date, ref_num) ==
    LET d4 == IF ref_num # NoText
              THEN update_val(doc, <<"CustOfficeOfFirstEntry", "RefNum">>, ref_num)
              ELSE doc
        d5 == update_val(d4, <<"CustOfficeOfFirstEntry", "ExpectedDateTimeOfArrival">>,
                         formatted_date)
        d6 == ensure_child_node(d5, <<"Consignor">>, "Number", NotAvailable)
        d7 == ensure_child_node(d6, <<"Consignee">>, "Number", NotAvailable)
        d8 == update_val(d7, <<"LodgingPerson", "TIN">>, tin_value(port))
    IN  update_val(d8, <<"Carrier", "TIN">>, tin_value(port))

\* File contents.  form "xml" is a well-formed document with its elements,
\* "malformed" is anything ET.parse rejects, "partial" is what an interrupted
\* write leaves behind (the file was truncated by open(path, "w")).
\* pristine holds as long as the bytes are those the file had before the run.
XmlFile(doc) == [form |-> "xml", nodes |-> doc, pristine |-> TRUE]
MalformedFile == [form |-> "malformed", nodes |-> <<>>, pristine |-> TRUE]
PartialFile == [form |-> "partial", nodes |-> <<>>, pristine |-> FALSE]
\* tree.write(file_path, encoding='utf-8', xml_declaration=True), completed.
Serialized(doc) == [form |-> "xml", nodes |-> doc, pristine |-> FALSE]

\* What the environment does to the file operations of one call:
\* "read_error"  ET.parse raises OSError (the file cannot be read),
\* "open_fail"   open(path, "w") inside tree.write raises OSError,
\* "write_fail"  the write fails after the file was opened and truncated.
IoOutcomes == {"ok", "read_error", "open_fail", "write_fail"}

\* Result of one call: the file's content afterwards, what the call did
\* ("True", "False" or "raise" with the exception), and whether the path
\* was opened for writing.
Outcome(disk, ret, exc, wrote) ==
    [disk |-> disk, ret |-> ret, exc |-> exc, wrote |-> wrote]

\* Variant of update_xml_file whose ParseError handler opens the file for
\* writing before it returns False.
update_xml_file_WritesOnParseError(content, voyage_num, imo, port, formatted_date, settings, io) ==
    IF io = "read_error"
    THEN Outcome(content, "raise", <<"OSError">>, FALSE)
    ELSE IF content.form # "xml"
    THEN Outcome(PartialFile, "False", NoText, TRUE)
    ELSE LET ref == get_ref_num(settings, port)
             doc == ApplyRest(ApplyHeader(content.nodes, voyage_num, imo, port),
                              port, formatted_date, ref.value)
         IN  IF ref.raised
             THEN Outcome(content, "raise", <<"AttributeError">>, FALSE)
             ELSE IF io = "open_fail"
             THEN Outcome(content, "raise", <<"OSError">>, TRUE)
             ELSE IF io = "write_fail"
             THEN Outcome(PartialFile, "raise", <<"OSError">>, TRUE)
             ELSE Outcome(Serialized(doc), "True", NoText, TRUE)

update_xml_file(content, voyage_num, imo, port, formatted_date, settings, io) ==
    IF io = "read_error"
    THEN Outcome(content, "raise", <<"OSError">>, FALSE)
    ELSE IF content.form # "xml"
    THEN Outcome(content, "False", NoText, FALSE)
    ELSE LET ref == get_ref_num(settings, port)
             doc == ApplyRest(ApplyHeader(content.nodes, voyage_num, imo, port),
                              port, formatted_date, ref.value)
         IN  IF ref.raised
             THEN Outcome(content, "raise", <<"AttributeError">>, FALSE)
             ELSE IF io = "open_fail"
             THEN Outcome(content, "raise", <<"OSError">>, TRUE)
             ELSE IF io = "write_fail"
             THEN Outcome(PartialFile, "raise", <<"OSError">>, TRUE)
             ELSE Outcome(Serialized(doc), "True", NoText, TRUE)

\* ------------------------------------------------------------------------
\* The directory tree
\* ------------------------------------------------------------------------
\* Files of the tree, each with the directory it lies in (the path
\* components below the tree's root) and its name.  Two files share the
\* name a.xml, one has an upper-case extension, one is not an XML file and
\* one lies directly in the root.
TreeFiles ==
    << [dir |-> <<"A">>,        name |-> <<"a", ".", "x", "m", "l">>],
       [dir |-> <<"B">>,        name |-> <<"a", ".", "x", "m", "l">>],
       [dir |-> <<"A", "sub">>, name |-> <<"b", ".", "X", "M", "L">>],
       [dir |-> <<"A">>,        name |-> <<"n", ".", "t", "x", "t">>],
       [dir |-> <<>>,           name |-> <<"r", ".", "x", "m", "l">>],
       [dir |-> <<"B">>,        name |-> <<"c", ".", "x", "m", "l">>] >>

Files == 1..(IF MaxFiles < Len(TreeFiles) THEN MaxFiles ELSE Len(TreeFiles))

IsPrefix(p, d) == Len(p) <= Len(d) /\ SubSeq(d, 1, Len(p)) = p

\* The directories that exist: the root and every ancestor of a file.
Dirs ==
    UNION {{SubSeq(TreeFiles[f].dir, 1, k) : k \in 0..Len(TreeFiles[f].dir)} : f \in Files}

MissingDir == <<"missing">>

\* os.path.join(target_dir, folder)
PathJoin(dir, folder) == Append(dir, folder)

\* Names of the immediate subdirectories of dir.
SubdirNames(dir) ==
    {d[Len(dir) + 1] : d \in {x \in Dirs : IsPrefix(dir, x) /\ Len(x) > Len(dir)}}

\* Files lying directly in dir.
FilesIn(dir) == {f \in Files : TreeFiles[f].dir = dir}

\* Files anywhere under dir.
FilesUnder(dir) == {f \in Files : IsPrefix(dir, TreeFiles[f].dir)}

\* All orders in which the elements of a set can be listed.
RECURSIVE Orders(_)
Orders(S) ==
    IF S = {} THEN {<<>>}
    ELSE UNION {{<<x>> \o rest : rest \in Orders(S \ {x})} : x \in S}

\* Variant of WalkOrders that lists the directory itself and does not
\* descend.
WalkOrders_Shallow(dir) == Orders(FilesIn(dir))

\* os.walk(base_dir), top-down: the files of a directory, then each of its
\* subdirectories in turn.  The order inside one directory listing is the
\* file system's; every order is possible.  A directory that does not exist
\* yields nothing.
RECURSIVE WalkOrders(_)
WalkOrders(dir) ==
    LET RECURSIVE Chain(_)
        Chain(names) ==
            IF names = <<>> THEN {<<>>}
            ELSE {w \o rest : w \in WalkOrders(PathJoin(dir, Head(names))),
                              rest \in Chain(Tail(names))}
    IN  {own \o below :
            own \in Orders(FilesIn(dir)),
            below \in UNION {Chain(names) : names \in Orders(SubdirNames(dir))}}

\* ------------------------------------------------------------------------
\* Documents found on disk
\* ------------------------------------------------------------------------
Old == <<"O", "L", "D">>

\* A declaration with every substructure; Consignor has no Number child,
\* Consignee has one.
FullDoc ==
    << Node("Envelope", TRUE, 0, NoText),
       Node("EntrySummaryDeclaration", TRUE, 1, NoText),
       Node("ConveyanceRefNum", TRUE, 2, Old),
       Node("IdeOfMeaOfTraCro", TRUE, 2, Old),
       Node("DeclPlace", TRUE, 2, Old),
       Node("CustOfficeOfFirstEntry", TRUE, 2, NoText),
       Node("RefNum", TRUE, 6, Old),
       Node("ExpectedDateTimeOfArrival", TRUE, 6, Old),
       Node("LodgingPerson", TRUE, 2, NoText),
       Node("TIN", TRUE, 9, Old),
       Node("Carrier", TRUE, 2, NoText),
       Node("TIN", TRUE, 11, Old),
       Node("Consignor", TRUE, 2, NoText),
       Node("Name", TRUE, 13, Old),
       Node("Consignee", TRUE, 2, NoText),
       Node("Number", TRUE, 15, Old) >>

\* The same elements as FullDoc, bound to another namespace.
ForeignDoc == [i \in 1..Len(FullDoc) |-> [FullDoc[i] EXCEPT !.ns = FALSE]]

\* Variant of IsXmlName that compares the name as it is spelt.
IsXmlName_CaseSensitive(name) == EndsWith(name, DotXml)

\* file.lower().endswith('.xml')
IsXmlName(name) == EndsWith(Lower(name), DotXml)

\* What a file of the tree may hold before the run.
InitialContents(f) ==
    IF IsXmlName(TreeFiles[f].name)
    THEN {XmlFile(FullDoc), XmlFile(ForeignDoc), MalformedFile}
    ELSE {MalformedFile}

\* ------------------------------------------------------------------------
\* Inputs of a run
\* ------------------------------------------------------------------------
V265 == <<"V", "2", "6", "5">>
Imo9123456 == <<"9", "1", "2", "3", "4", "5", "6">>

PortInputs ==
    { GBLIV,
      <<"g", "b", "l", "i", "v">>,
      <<"G", "b", "F", "x", "T">>,
      <<"N", "L", "R", "T", "M">> }

\* Arrival dates typed in a batch run: one valid, one with month 13.
BatchDates ==
    { <<"2", "0", "2", "5", "-", "1", "2", "-", "1", "1">>,
      <<"2", "0", "2", "5", "-", "1", "3", "-", "0", "1">> }

TargetDirs == Dirs \cup {MissingDir}

\* ------------------------------------------------------------------------
\* xml_utils.update_xml_directory
\* ------------------------------------------------------------------------
\* Entries of the errors list are strings; prefix is the part before the
\* colon, detail the part after it.
InvalidDateEntry(arrival_date_str) ==
    [prefix |-> <<"Invalid date format">>, detail |-> arrival_date_str]
FileErrorEntry(file, exc) == [prefix |-> file, detail |-> exc]

\* Variant of DirectoryCall that swallows the ValueError and walks on with
\* the date as typed.
DirectoryCall_IgnoresValueError(arrival_date_str, padsYear, walk) ==
    LET dt == strptime(arrival_date_str)
    IN  [returned |-> FALSE, updated_count |-> 0, errors |-> <<>>,
         formatted_date |-> IF dt.ok THEN FormattedDate(dt, padsYear)
                            ELSE arrival_date_str,
         queue |-> walk]

\* Lines 11 to 22: the locals after the date was formatted.  returned says
\* that the function has already returned (the ValueError branch).
DirectoryCall(arrival_date_str, padsYear, walk) ==
    LET dt == strptime(arrival_date_str)
    IN  IF ~dt.ok
        THEN [returned |-> TRUE, updated_count |-> 0,
              errors |-> <<InvalidDateEntry(arrival_date_str)>>,
              formatted_date |-> NoText, queue |-> <<>>]
        ELSE [returned |-> FALSE, updated_count |-> 0, errors |-> <<>>,
              formatted_date |-> FormattedDate(dt, padsYear), queue |-> walk]

\* Lines 26 to 31: the accounting of one call of update_xml_file.
Tally(count, errs, file, r) ==
    [updated_count |-> IF r.ret = "True" THEN count + 1 ELSE count,
     errors |-> IF r.ret = "raise"
                THEN Append(errs, FileErrorEntry(file, r.exc)) ELSE errs]

\* Variant of Remaining that leaves the loops at the first file that was
\* not updated.
Remaining_StopsOnFailure(queue, r) ==
    IF r.ret = "True" THEN Tail(queue) ELSE <<>>

\* The for loops of lines 22 and 23 go on to the next file whatever the
\* call did.
Remaining(queue, r) == Tail(queue)

\* The state a file has reached in the run.
FileStateAfter(r) ==
    IF r.ret = "True" THEN "Rewritten"
    ELSE IF r.ret = "False" THEN "ParseFailed"
    ELSE IF r.wrote THEN "WriteFailed"
    ELSE "Failed"

\* ------------------------------------------------------------------------
\* State
\* ------------------------------------------------------------------------
VARIABLES
    fs,                \* content of every file of the tree
    settings_file,     \* state of settings.json
    pc,                \* position of the GUI handler / the walk
    target_dir,        \* path_var.get()
    request,           \* curr_voyage, imo, curr_port, curr_date
    subdirs,           \* listing of the immediate subdirectories
    selected_folders,  \* confirm_update: the folders chosen in the listbox
    folder_idx,        \* confirm_update: position in selected_folders
    total_count,       \* confirm_update: total_count
    all_errors,        \* confirm_update: all_errors
    base_dir,          \* update_xml_directory: base_dir
    formatted_date,    \* update_xml_directory: formatted_date
    queue,             \* update_xml_directory: files os.walk still yields
    updated_count,     \* update_xml_directory: updated_count
    errors,            \* update_xml_directory: errors
    shown,             \* what _show_results displayed
    file_state,        \* per file: how far its processing got
    visit_log,         \* files handed to update_xml_file, in order
    faults,            \* I/O faults injected so far
    vessels,           \* rows of table vessels
    voyages,           \* rows of table voyages
    ens_entries,       \* rows of table ens_entries
    sqlite_sequence,   \* the AUTOINCREMENT counter of each table
    today,             \* datetime.now().date()
    show_past,         \* the "Show Past Voyages" checkbox
    tree,              \* rows of the voyage list, each with its tag
    outcome            \* how the last save_edit or duplicate_voyage ended

vars == <<fs, settings_file, pc, target_dir, request, subdirs, selected_folders,
          folder_idx, total_count, all_errors, base_dir, formatted_date, queue,
          updated_count, errors, shown, file_state, visit_log, faults,
          vessels, voyages, ens_entries, sqlite_sequence, today, show_past, tree,
          outcome>>

guiVars == <<target_dir, request, subdirs, selected_folders, folder_idx,
             total_count, all_errors>>
callVars == <<base_dir, formatted_date, queue, updated_count, errors>>
diskVars == <<fs, settings_file, file_state, visit_log, faults>>
dbVars == <<vessels, voyages, ens_entries, sqlite_sequence>>
listVars == <<today, show_past, tree, outcome>>

NoRequest ==
    [voyage_num |-> NoText, imo |-> NoText, port |-> NoText,
     arrival_date_str |-> NoText]
NoResult == [shown |-> FALSE, count |-> 0, errors |-> <<>>]
Result(count, errs) == [shown |-> TRUE, count |-> count, errors |-> errs]

\* The listbox selection, in listing order (lb.curselection() is ascending).
RECURSIVE Pick(_, _)
Pick(seq, idxs) ==
    IF idxs = {} THEN <<>>
    ELSE <<seq[SetMin(idxs)]>> \o Pick(seq, idxs \ {SetMin(idxs)})

\* ------------------------------------------------------------------------
\* Initial state: the edit popup is open, nothing has run yet.
\* ------------------------------------------------------------------------
Quiet ==
    /\ target_dir = <<>>
    /\ subdirs = <<>>
    /\ selected_folders = <<>>
    /\ folder_idx = 0
    /\ total_count = 0
    /\ all_errors = <<>>
    /\ formatted_date = NoText
    /\ queue = <<>>
    /\ updated_count = 0
    /\ errors = <<>>
    /\ shown = NoResult
    /\ file_state = [f \in Files |-> "Unvisited"]
    /\ visit_log = <<>>
    /\ faults = 0

\* The database as init_db() creates it: three empty tables.
Tables == {"vessels", "voyages", "ens_entries"}
EmptyDb ==
    /\ vessels = {}
    /\ voyages = {}
    /\ ens_entries = {}
    /\ sqlite_sequence = [t \in Tables |-> 0]

\* The voyage list has not been loaded.
Date(y, m, d) == [year |-> y, month |-> m, day |-> d]
\* ret is "return" or "raise"; ok and msg are the tuple returned or the
\* message shown, or FALSE and the exception raised.
NoOutcome == [call |-> "none", ret |-> "none", ok |-> FALSE, msg |-> "none"]
ListEmpty ==
    /\ today = Date(2024, 2, 27)
    /\ show_past = FALSE
    /\ tree = <<>>
    /\ outcome = NoOutcome

Init ==
    /\ fs \in [Files -> UNION {InitialContents(f) : f \in Files}]
    /\ \A f \in Files : fs[f] \in InitialContents(f)
    /\ Cardinality({f \in Files : IsXmlName(TreeFiles[f].name)
                                     /\ fs[f] # XmlFile(FullDoc)}) <= MaxOddFiles
    /\ settings_file \in SettingsStates
    /\ pc = "idle"
    /\ request = NoRequest
    /\ base_dir = <<>>
    /\ Quiet
    /\ EmptyDb
    /\ ListEmpty

\* ------------------------------------------------------------------------
\* gui_app.run_embedded_xml_update
\* ------------------------------------------------------------------------
\* The values read from the entry fields and the vessel table.
Gather(port, date) ==
    [voyage_num |-> V265, imo |-> Imo9123456, port |-> port,
     arrival_date_str |-> date]

\* The directory does not exist.  "No" returns; "Yes" goes on to
\* os.listdir(target_dir), which raises FileNotFoundError out of the handler.
RunMissingDir ==
    /\ pc = "idle"
    /\ \E port \in PortInputs, date \in BatchDates, dir \in TargetDirs, goOn \in BOOLEAN :
        /\ dir \notin Dirs
        /\ request' = Gather(port, date)
        /\ target_dir' = dir
        /\ pc' = IF goOn THEN "crashed" ELSE "done"
    /\ UNCHANGED <<subdirs, selected_folders, folder_idx, total_count, all_errors,
                   shown>>
    /\ UNCHANGED callVars
    /\ UNCHANGED diskVars
    /\ UNCHANGED dbVars
    /\ UNCHANGED listVars

\* No subdirectories: after confirmation the directory itself is updated.
RunNoSubdirs ==
    /\ pc = "idle"
    /\ \E port \in PortInputs, date \in BatchDates, dir \in TargetDirs, yes \in BOOLEAN :
        /\ dir \in Dirs
        /\ SubdirNames(dir) = {}
        /\ request' = Gather(port, date)
        /\ target_dir' = dir
        /\ base_dir' = dir
        /\ pc' = IF yes THEN "call" ELSE "done"
    /\ UNCHANGED <<subdirs, selected_folders, folder_idx, total_count, all_errors,
                   shown>>
    /\ UNCHANGED <<formatted_date, queue, updated_count, errors>>
    /\ UNCHANGED diskVars
    /\ UNCHANGED dbVars
    /\ UNCHANGED listVars

\* Subdirectories exist: the selection popup is shown.
RunShowSelection ==
    /\ pc = "idle"
    /\ \E port \in PortInputs, date \in BatchDates, dir \in TargetDirs :
        /\ dir \in Dirs
        /\ SubdirNames(dir) # {}
        /\ request' = Gather(port, date)
        /\ target_dir' = dir
        /\ subdirs' \in Orders(SubdirNames(dir))
        /\ pc' = "select"
    /\ UNCHANGED <<selected_folders, folder_idx, total_count, all_errors, shown>>
    /\ UNCHANGED callVars
    /\ UNCHANGED diskVars
    /\ UNCHANGED dbVars
    /\ UNCHANGED listVars

\* ------------------------------------------------------------------------
\* gui_app.confirm_update
\* ------------------------------------------------------------------------
\* Lines 760 to 775, up to the first call of update_xml_directory.  An empty
\* selection or a "No" returns without a change.
ConfirmUpdate ==
    /\ pc = "select"
    /\ \E sel \in SUBSET (1..Len(subdirs)) :
        /\ sel # {}
        /\ selected_folders' = Pick(subdirs, sel)
        /\ base_dir' = PathJoin(target_dir, Pick(subdirs, sel)[1])
    /\ folder_idx' = 1
    /\ total_count' = 0
    /\ all_errors' = <<>>
    /\ pc' = "call"
    /\ UNCHANGED <<target_dir, request, subdirs, shown>>
    /\ UNCHANGED <<formatted_date, queue, updated_count, errors>>
    /\ UNCHANGED diskVars
    /\ UNCHANGED dbVars
    /\ UNCHANGED listVars

\* Variant of Merged that keeps the result of the last folder only.
Merged_KeepsLast(total, all, count, errs) ==
    [total_count |-> count, all_errors |-> errs]

\* Lines 777 and 778: total_count += count; all_errors.extend(errors)
Merged(total, all, count, errs) ==
    [total_count |-> total + count, all_errors |-> all \o errs]

\* Lines 776 to 780: merge the result of one folder, go on to the next
\* folder or show the totals.
ConfirmUpdateMerge ==
    /\ pc = "return"
    /\ selected_folders # <<>>
    /\ total_count' = Merged(total_count, all_errors, updated_count, errors).total_count
    /\ all_errors' = Merged(total_count, all_errors, updated_count, errors).all_errors
    /\ IF folder_idx < Len(selected_folders)
       THEN /\ folder_idx' = folder_idx + 1
            /\ base_dir' = PathJoin(target_dir, selected_folders[folder_idx + 1])
            /\ pc' = "call"
            /\ shown' = shown
       ELSE /\ folder_idx' = folder_idx
            /\ base_dir' = base_dir
            /\ pc' = "done"
            /\ shown' = Result(Merged(total_count, all_errors, updated_count, errors).total_count,
                               Merged(total_count, all_errors, updated_count, errors).all_errors)
    /\ UNCHANGED <<target_dir, request, subdirs, selected_folders>>
    /\ UNCHANGED <<formatted_date, queue, updated_count, errors>>
    /\ UNCHANGED diskVars
    /\ UNCHANGED dbVars
    /\ UNCHANGED listVars

\* Line 724: the result of the single call is shown.
ShowResultsUnscoped ==
    /\ pc = "return"
    /\ selected_folders = <<>>
    /\ shown' = Result(updated_count, errors)
    /\ pc' = "done"
    /\ UNCHANGED guiVars
    /\ UNCHANGED callVars
    /\ UNCHANGED diskVars
    /\ UNCHANGED dbVars
    /\ UNCHANGED listVars

\* ------------------------------------------------------------------------
\* xml_utils.update_xml_directory, step by step
\* ------------------------------------------------------------------------
\* Lines 11 to 22: format the date, start the walk.
UpdateXmlDirectoryEnter ==
    /\ pc = "call"
    /\ \E padsYear \in BOOLEAN, walk \in WalkOrders(base_dir) :
        LET c == DirectoryCall(request.arrival_date_str, padsYear, walk)
        IN  /\ formatted_date' = c.formatted_date
            /\ queue' = c.queue
            /\ updated_count' = c.updated_count
            /\ errors' = c.errors
            /\ pc' = IF c.returned \/ c.queue = <<>> THEN "return" ELSE "walk"
    /\ UNCHANGED guiVars
    /\ UNCHANGED <<base_dir, shown>>
    /\ UNCHANGED diskVars
    /\ UNCHANGED dbVars
    /\ UNCHANGED listVars

\* Lines 23 and 24: a file whose name does not end in .xml is passed over.
SkipFile ==
    /\ pc = "walk"
    /\ ~IsXmlName(TreeFiles[Head(queue)].name)
    /\ queue' = Tail(queue)
    /\ file_state' = [file_state EXCEPT ![Head(queue)] = "Skipped"]
    /\ pc' = IF Tail(queue) = <<>> THEN "return" ELSE "walk"
    /\ UNCHANGED guiVars
    /\ UNCHANGED <<base_dir, formatted_date, updated_count, errors, shown>>
    /\ UNCHANGED <<fs, settings_file, visit_log, faults>>
    /\ UNCHANGED dbVars
    /\ UNCHANGED listVars

\* Lines 24 to 31: one matching file goes through update_xml_file.
ProcessFile ==
    /\ pc = "walk"
    /\ IsXmlName(TreeFiles[Head(queue)].name)
    /\ \E io \in IoOutcomes :
        /\ io # "ok" => faults < MaxFaults
        /\ LET f == Head(queue)
               r == update_xml_file(fs[f], request.voyage_num, request.imo,
                                    request.port, formatted_date, settings_file, io)
               t == Tally(updated_count, errors, TreeFiles[f].name, r)
           IN  /\ fs' = [fs EXCEPT ![f] = r.disk]
               /\ updated_count' = t.updated_count
               /\ errors' = t.errors
               /\ queue' = Remaining(queue, r)
               /\ pc' = IF Remaining(queue, r) = <<>> THEN "return" ELSE "walk"
               /\ file_state' = [file_state EXCEPT ![f] = FileStateAfter(r)]
               /\ visit_log' = Append(visit_log, f)
               /\ faults' = IF io = "ok" THEN faults ELSE faults + 1
    /\ UNCHANGED guiVars
    /\ UNCHANGED <<base_dir, formatted_date, shown, settings_file>>
    /\ UNCHANGED dbVars
    /\ UNCHANGED listVars

Next ==
    \/ RunMissingDir
    \/ RunNoSubdirs
    \/ RunShowSelection
    \/ ConfirmUpdate
    \/ ConfirmUpdateMerge
    \/ ShowResultsUnscoped
    \/ UpdateXmlDirectoryEnter
    \/ SkipFile
    \/ ProcessFile

Spec == Init /\ [][Next]_vars

\* ------------------------------------------------------------------------
\* The settings tab at work during a batch
\* ------------------------------------------------------------------------
\* settings.json lies in the working directory and is shared by every
\* running instance of the application.  Edit Mapping, Save in another
\* instance: the reference number of GBLIV is replaced and the file is
\* written again.
SaveMapping ==
    /\ settings_file \in {"object", "edited"}
    /\ settings_file' = IF settings_file = "object" THEN "edited" ELSE "object"
    /\ UNCHANGED <<pc, shown>>
    /\ UNCHANGED guiVars
    /\ UNCHANGED callVars
    /\ UNCHANGED <<fs, file_state, visit_log, faults>>
    /\ UNCHANGED dbVars
    /\ UNCHANGED listVars

InitSettings == Init /\ settings_file = "object"

NextSettings == Next \/ SaveMapping

SpecSettings == InitSettings /\ [][NextSettings]_vars

\* ------------------------------------------------------------------------
\* One file on its own: directory B holds a single declaration of any of
\* the shapes below, and the same update may be run over it again.
\* ------------------------------------------------------------------------
\* A declaration without any optional substructure.
BareDoc == SubSeq(FullDoc, 1, 5)

\* A declaration whose root element is EntrySummaryDeclaration itself.
RootEsdDoc ==
    [i \in 1..(Len(FullDoc) - 1) |->
        [FullDoc[i + 1] EXCEPT !.parent = FullDoc[i + 1].parent - 1]]

\* Two declarations in one envelope: a short one a level deeper, in a Batch,
\* and after it the complete one of FullDoc directly below the root.
NestedDoc ==
    << Node("Envelope", TRUE, 0, NoText),
       Node("Batch", TRUE, 1, NoText),
       Node("EntrySummaryDeclaration", TRUE, 2, NoText),
       Node("ConveyanceRefNum", TRUE, 3, Old),
       Node("Consignor", TRUE, 3, NoText) >>
    \o [i \in 1..(Len(FullDoc) - 1) |->
           [FullDoc[i + 1] EXCEPT
               !.parent = IF FullDoc[i + 1].parent = 1 THEN 1
                          ELSE FullDoc[i + 1].parent + 4]]

\* FullDoc with a Header beside the declaration that has a ConveyanceRefNum
\* of its own.
StrayDoc ==
    AppendChild(AppendChild(FullDoc, 1, Node("Header", TRUE, 1, NoText)),
                Len(FullDoc) + 1,
                Node("ConveyanceRefNum", TRUE, Len(FullDoc) + 1, Old))

FileShapes == {FullDoc, BareDoc, RootEsdDoc, NestedDoc, StrayDoc, ForeignDoc}

\* The file of the tree that SpecFile varies: the only file of directory B.
TheFile == CHOOSE f \in Files : TreeFiles[f].dir = <<"B">>

InitFile ==
    /\ \E doc \in FileShapes :
          fs = [f \in Files |-> IF f = TheFile THEN XmlFile(doc) ELSE XmlFile(FullDoc)]
    /\ settings_file \in SettingsStates
    /\ pc = "call"
    /\ \E port \in PortInputs : request = Gather(port, CHOOSE d \in BatchDates : strptime(d).ok)
    /\ base_dir = <<"B">>
    /\ Quiet
    /\ EmptyDb
    /\ ListEmpty

\* "Run XML Update Now" is pressed once more with the entries unchanged: the
\* directory exists and has no subdirectories, the confirmation is accepted.
RunAgain ==
    /\ pc = "done"
    /\ shown.shown
    /\ selected_folders = <<>>
    /\ Len(visit_log) < MaxRuns
    /\ pc' = "call"
    /\ UNCHANGED guiVars
    /\ UNCHANGED callVars
    /\ UNCHANGED diskVars
    /\ UNCHANGED shown
    /\ UNCHANGED dbVars
    /\ UNCHANGED listVars

NextFile ==
    \/ UpdateXmlDirectoryEnter
    \/ ProcessFile
    \/ ShowResultsUnscoped
    \/ RunAgain

SpecFile == InitFile /\ [][NextFile]_vars

\* ------------------------------------------------------------------------
\* Date formatting on its own: update_xml_directory is entered with arrival
\* dates of every shape, over a directory holding complete declarations.
\* ------------------------------------------------------------------------
YearStrings ==
    { <<"2", "0", "2", "5">>, <<"2", "0", "2", "4">>, <<"1", "9", "0", "0">>,
      <<"1", "0", "0", "0">>, <<"0", "9", "9", "9">>, <<"0", "0", "0", "0">> }
MonthStrings ==
    { <<"0", "1">>, <<"0", "2">>, <<"1", "2">>, <<"1", "3">>, <<"0", "0">>,
      <<"2">>, <<"x">> }
DayStrings ==
    { <<"0", "1">>, <<"2", "8">>, <<"2", "9">>, <<"3", "0">>, <<"3", "1">>,
      <<"3", "2">>, <<"0", "0">>, <<"5">>, <<" ", "5">>, <<"1", "1", "1">> }

DateInputs ==
    {y \o <<"-">> \o m \o <<"-">> \o d :
        y \in YearStrings, m \in MonthStrings, d \in DayStrings}
    \cup { <<>>,
           <<"2", "0", "2", "5", "1", "2", "1", "1">>,
           <<"2", "0", "2", "5", "/", "1", "2", "/", "1", "1">>,
           <<"2", "0", "2", "5", "-", "1", "2", "-", "1", "1", " ">>,
           <<"1", "1", "-", "1", "2", "-", "2", "0", "2", "5">> }

InitDate ==
    /\ fs = [f \in Files |-> XmlFile(FullDoc)]
    /\ settings_file = "missing"
    /\ pc = "call"
    /\ \E port \in {GBLIV}, date \in DateInputs : request = Gather(port, date)
    /\ base_dir = <<"B">>
    /\ Quiet
    /\ EmptyDb
    /\ ListEmpty

NextDate == UpdateXmlDirectoryEnter

SpecDate == InitDate /\ [][NextDate]_vars

\* ------------------------------------------------------------------------
\* db_utils
\* ------------------------------------------------------------------------
\* A row of each table.  NULL is written NoText.
Vessel(id, name, imo_number) ==
    [id |-> id, name |-> name, imo_number |-> imo_number]
Voyage(id, vessel_id, voyage_number, service_name) ==
    [id |-> id, vessel_id |-> vessel_id, voyage_number |-> voyage_number,
     service_name |-> service_name]
EnsEntry(id, voyage_id, port, arrival_date, is_declared, uploaded_files) ==
    [id |-> id, voyage_id |-> voyage_id, port |-> port,
     arrival_date |-> arrival_date, is_declared |-> is_declared,
     uploaded_files |-> uploaded_files]

\* INTEGER PRIMARY KEY AUTOINCREMENT: one more than the largest id the
\* table has ever held.
NextId(table) == sqlite_sequence[table] + 1
Bump(table) == [sqlite_sequence EXCEPT ![table] = NextId(table)]

\* Variant of add_vessel on a table without UNIQUE(name): the row is
\* inserted whatever the table holds.
add_vessel_NoUnique(name, imo_number) ==
    [ok |-> TRUE, msg |-> "Vessel added successfully.",
     vessels |-> vessels \cup {Vessel(NextId("vessels"), name, imo_number)},
     sqlite_sequence |-> Bump("vessels")]

\* add_vessel(name, imo_number): the INSERT fails on UNIQUE(name) and the
\* function returns (False, ...) with the table as it was.
add_vessel(name, imo_number) ==
    IF \E v \in vessels : v.name = name
    THEN [ok |-> FALSE, msg |-> "Vessel with this name already exists.",
          vessels |-> vessels, sqlite_sequence |-> sqlite_sequence]
    ELSE [ok |-> TRUE, msg |-> "Vessel added successfully.",
          vessels |-> vessels \cup {Vessel(NextId("vessels"), name, imo_number)},
          sqlite_sequence |-> Bump("vessels")]

\* delete_vessel(name): only the vessel's row goes; its voyages stay.
delete_vessel(name) ==
    [ok |-> \E v \in vessels : v.name = name,
     msg |-> IF \E v \in vessels : v.name = name
             THEN "Vessel deleted." ELSE "Vessel not found.",
     vessels |-> {v \in vessels : v.name # name}]

\* add_voyage(vessel_id, voyage_number, service_name); foreign keys are
\* not enforced, any vessel_id is stored.
add_voyage(vessel_id, voyage_number, service_name) ==
    [voyage_id |-> NextId("voyages"),
     voyages |-> voyages \cup
                   {Voyage(NextId("voyages"), vessel_id, voyage_number, service_name)},
     sqlite_sequence |-> Bump("voyages")]

\* add_ens_entry(voyage_id, port, arrival_date, uploaded_files="")
add_ens_entry(voyage_id, port, arrival_date, uploaded_files) ==
    [ens_entries |-> ens_entries \cup
                       {EnsEntry(NextId("ens_entries"), voyage_id, port,
                                 arrival_date, 0, uploaded_files)},
     sqlite_sequence |-> Bump("ens_entries")]

\* delete_entry(entry_id)
delete_entry(entry_id) == {e \in ens_entries : e.id # entry_id}

\* update_declaration_status(entry_id, status)
update_declaration_status(entry_id, status) ==
    {IF e.id = entry_id THEN [e EXCEPT !.is_declared = status] ELSE e :
        e \in ens_entries}

\* Text comparison of SQLite (BINARY collation) on the characters that
\* occur in dates.
CharCode(c) == IF c = " " THEN 32 ELSE IF c = "-" THEN 45 ELSE 48 + DigitVal(c)
RECURSIVE TextLess(_, _)
TextLess(a, b) ==
    IF b = <<>> THEN FALSE
    ELSE IF a = <<>> THEN TRUE
    ELSE IF CharCode(Head(a)) # CharCode(Head(b))
         THEN CharCode(Head(a)) < CharCode(Head(b))
    ELSE TextLess(Tail(a), Tail(b))

\* Variant of EntriesOf with LEFT JOIN: a voyage without entries yields one
\* row of NULLs.
EntriesOf_LeftJoin(db, v) ==
    IF \E e \in db.ens_entries : e.voyage_id = v.id
    THEN {e \in db.ens_entries : e.voyage_id = v.id}
    ELSE {EnsEntry(0, 0, NoText, NoText, 0, NoText)}

\* JOIN ens_entries e ON v.id = e.voyage_id
EntriesOf(db, v) == {e \in db.ens_entries : e.voyage_id = v.id}

\* JOIN vessels ves ON v.vessel_id = ves.id
VesselsOf(db, v) == {ves \in db.vessels : ves.id = v.vessel_id}

\* One row of the SELECT.
DetailRow(v, ves, e) ==
    [voyage_id |-> v.id, vessel_name |-> ves.name,
     voyage_number |-> v.voyage_number, service_name |-> v.service_name,
     entry_id |-> e.id, port |-> e.port, arrival_date |-> e.arrival_date,
     is_declared |-> e.is_declared, uploaded_files |-> e.uploaded_files]

\* ORDER BY e.arrival_date DESC; rows with equal dates come in an order of
\* the engine's choosing.
RECURSIVE OrderByArrivalDesc(_)
OrderByArrivalDesc(joined) ==
    IF joined = {} THEN <<>>
    ELSE LET first == CHOOSE t \in joined :
                         \A u \in joined : ~TextLess(t[3].arrival_date, u[3].arrival_date)
         IN  <<DetailRow(first[1], first[2], first[3])>>
             \o OrderByArrivalDesc(joined \ {first})

\* The tables as a connection sees them.
Db == [vessels |-> vessels, voyages |-> voyages, ens_entries |-> ens_entries]

\* get_voyages_with_details(): the rows of the data frame.
get_voyages_with_details(db) ==
    OrderByArrivalDesc(
        UNION {{<<v, ves, e>> : ves \in VesselsOf(db, v), e \in EntriesOf(db, v)} :
                  v \in db.voyages})

\* ------------------------------------------------------------------------
\* The database on its own: the operations of db_utils in any order, while
\* no XML update is running.
\* ------------------------------------------------------------------------
VesselNames == {"ALPHA", "BETA"}
ServiceS1 == <<"S", "1">>

\* Arrival dates as the GUI stores them after validating with strptime.
EntryDates == { <<"2", "0", "2", "4", "-", "0", "3", "-", "0", "1">> }

\* No XML update has been started.
XmlIdle ==
    /\ fs = [f \in Files |-> XmlFile(FullDoc)]
    /\ settings_file = "missing"
    /\ pc = "idle"
    /\ request = NoRequest
    /\ base_dir = <<>>
    /\ Quiet

xmlVars == <<pc, shown, guiVars, callVars, diskVars>>

InitDb ==
    /\ XmlIdle
    /\ EmptyDb
    /\ ListEmpty

AddVessel ==
    /\ sqlite_sequence["vessels"] < MaxVessels
    /\ \E name \in VesselNames :
        LET r == add_vessel(name, Imo9123456)
        IN  /\ vessels' = r.vessels
            /\ sqlite_sequence' = r.sqlite_sequence
    /\ UNCHANGED <<voyages, ens_entries>>
    /\ UNCHANGED listVars
    /\ UNCHANGED xmlVars

DeleteVessel ==
    /\ \E name \in VesselNames : vessels' = delete_vessel(name).vessels
    /\ UNCHANGED <<voyages, ens_entries, sqlite_sequence>>
    /\ UNCHANGED listVars
    /\ UNCHANGED xmlVars

AddVoyage ==
    /\ sqlite_sequence["voyages"] < MaxVoyages
    /\ \E vessel_id \in 1..MaxVessels :
        LET r == add_voyage(vessel_id, V265, ServiceS1)
        IN  /\ voyages' = r.voyages
            /\ sqlite_sequence' = r.sqlite_sequence
    /\ UNCHANGED <<vessels, ens_entries>>
    /\ UNCHANGED listVars
    /\ UNCHANGED xmlVars

AddEnsEntry ==
    /\ sqlite_sequence["ens_entries"] < MaxEntries
    /\ \E voyage_id \in 1..MaxVoyages, arrival_date \in EntryDates :
        LET r == add_ens_entry(voyage_id, GBLIV, arrival_date, NoText)
        IN  /\ ens_entries' = r.ens_entries
            /\ sqlite_sequence' = r.sqlite_sequence
    /\ UNCHANGED <<vessels, voyages>>
    /\ UNCHANGED listVars
    /\ UNCHANGED xmlVars

DeleteEntry ==
    /\ \E entry_id \in 1..MaxEntries : ens_entries' = delete_entry(entry_id)
    /\ UNCHANGED <<vessels, voyages, sqlite_sequence>>
    /\ UNCHANGED listVars
    /\ UNCHANGED xmlVars

NextDb ==
    \/ AddVessel
    \/ DeleteVessel
    \/ AddVoyage
    \/ AddEnsEntry
    \/ DeleteEntry

SpecDb == InitDb /\ [][NextDb]_vars

\* ------------------------------------------------------------------------
\* gui_app.load_voyages and the alert tags
\* ------------------------------------------------------------------------
\* date.toordinal(): the number of the day, 0001-01-01 being day 1.
RECURSIVE DaysBeforeMonth(_, _)
DaysBeforeMonth(y, m) ==
    IF m = 1 THEN 0 ELSE DaysBeforeMonth(y, m - 1) + DaysInMonth(y, m - 1)
toordinal(dt) ==
    LET y == dt.year - 1
    IN  y * 365 + (y \div 4) - (y \div 100) + (y \div 400)
        + DaysBeforeMonth(dt.year, dt.month) + dt.day

\* pd.to_datetime(df['arrival_date']).dt.date for one stored date.
to_date(text) ==
    LET dt == strptime(text) IN Date(dt.year, dt.month, dt.day)

\* Variant of row_tag that is urgent only below two days.
row_tag_UrgentBelowTwo(arrival, is_declared, now) ==
    IF is_declared # 0 THEN "completed"
    ELSE LET days_remaining == toordinal(arrival) - toordinal(now)
         IN  IF days_remaining < 2 THEN "urgent"
             ELSE IF days_remaining <= 5 THEN "warning"
             ELSE "completed"

\* Lines 512 to 519 of load_voyages: the tag of one row.
row_tag(arrival, is_declared, now) ==
    IF is_declared # 0 THEN "completed"
    ELSE LET days_remaining == toordinal(arrival) - toordinal(now)
         IN  IF days_remaining <= 2 THEN "urgent"
             ELSE IF days_remaining <= 5 THEN "warning"
             ELSE "completed"

\* test_alerts.get_tag, with date.today() as third argument.
get_tag(arrival_date, is_declared, now) ==
    IF is_declared THEN "completed"
    ELSE IF toordinal(arrival_date) - toordinal(now) <= 2 THEN "urgent"
    ELSE IF toordinal(arrival_date) - toordinal(now) <= 5 THEN "warning"
    ELSE "completed"

\* load_voyages() with every filter but "Show Past Voyages" set to All: the
\* rows inserted into the tree.
load_voyages(db, past) ==
    LET df == get_voyages_with_details(db)
        kept == SelectSeq(df, LAMBDA row :
                    past \/ toordinal(to_date(row.arrival_date)) >= toordinal(today))
    IN  [i \in 1..Len(kept) |->
            [iid |-> kept[i].entry_id,
             arrival_date |-> kept[i].arrival_date,
             tag |-> row_tag(to_date(kept[i].arrival_date), kept[i].is_declared, today)]]

\* The day after d, and the day n days from d.
DayAfter(d) ==
    IF d.day < DaysInMonth(d.year, d.month) THEN Date(d.year, d.month, d.day + 1)
    ELSE IF d.month < 12 THEN Date(d.year, d.month + 1, 1)
    ELSE Date(d.year + 1, 1, 1)
DayBefore(d) ==
    IF d.day > 1 THEN Date(d.year, d.month, d.day - 1)
    ELSE IF d.month > 1 THEN Date(d.year, d.month - 1, DaysInMonth(d.year, d.month - 1))
    ELSE Date(d.year - 1, 12, 31)
RECURSIVE DaysFrom(_, _)
DaysFrom(d, n) ==
    IF n = 0 THEN d
    ELSE IF n > 0 THEN DaysFrom(DayAfter(d), n - 1)
    ELSE DaysFrom(DayBefore(d), n + 1)

\* date.isoformat()
isoformat(d) == Pad4(d.year) \o <<"-">> \o Pad2(d.month) \o <<"-">> \o Pad2(d.day)

\* Days on which the list is looked at: before the leap day, before the end
\* of a year, before the end of a month.
Todays == {Date(2024, 2, 27), Date(2023, 12, 30), Date(2025, 4, 29)}

\* One vessel with one voyage and one undeclared entry that arrives around
\* today; the list is not loaded yet.
InitAlert ==
    /\ XmlIdle
    /\ today \in Todays
    /\ \E n \in (0 - MaxDaysPast)..MaxDaysAhead :
          ens_entries = {EnsEntry(1, 1, GBLIV, isoformat(DaysFrom(today, n)), 0, NoText)}
    /\ vessels = {Vessel(1, "ALPHA", Imo9123456)}
    /\ voyages = {Voyage(1, 1, V265, ServiceS1)}
    /\ sqlite_sequence = [t \in Tables |-> 1]
    /\ show_past = FALSE
    /\ tree = <<>>
    /\ outcome = NoOutcome

\* The "Show Past Voyages" checkbox is clicked: the list is reloaded.
TogglePast ==
    /\ show_past' = ~show_past
    /\ tree' = load_voyages(Db, ~show_past)
    /\ UNCHANGED <<today, outcome>>
    /\ UNCHANGED dbVars
    /\ UNCHANGED xmlVars

\* toggle_status(new_status) on a row selected in the list.
ToggleStatus ==
    /\ \E i \in 1..Len(tree), new_status \in {0, 1} :
          LET updated == update_declaration_status(tree[i].iid, new_status)
          IN  /\ ens_entries' = updated
              /\ tree' = load_voyages([Db EXCEPT !.ens_entries = updated], show_past)
    /\ UNCHANGED <<today, show_past, outcome>>
    /\ UNCHANGED <<vessels, voyages, sqlite_sequence>>
    /\ UNCHANGED xmlVars

NextAlert ==
    \/ TogglePast
    \/ ToggleStatus

SpecAlert == InitAlert /\ [][NextAlert]_vars

\* ------------------------------------------------------------------------
\* db_utils: editing and cloning a voyage
\* ------------------------------------------------------------------------
\* update_ens_entry(entry_id, port, arrival_date, uploaded_files) with
\* uploaded_files given, as save_edit calls it.
update_ens_entry(db, entry_id, port, arrival_date, uploaded_files) ==
    {IF e.id = entry_id
     THEN [e EXCEPT !.port = port, !.arrival_date = arrival_date,
                    !.uploaded_files = uploaded_files]
     ELSE e : e \in db.ens_entries}

\* update_voyage(voyage_id, voyage_number, service_name): the UPDATE is
\* committed and the connection closed (lines 155 to 161); the second
\* conn.commit() of line 163 then acts on the closed connection and raises
\* sqlite3.ProgrammingError.
update_voyage(db, voyage_id, voyage_number, service_name) ==
    [voyages |-> {IF v.id = voyage_id
                  THEN IF service_name # NoText
                       THEN [v EXCEPT !.voyage_number = voyage_number,
                                      !.service_name = service_name]
                       ELSE [v EXCEPT !.voyage_number = voyage_number]
                  ELSE v : v \in db.voyages},
     raised |-> "ProgrammingError"]

\* get_voyage_entries(voyage_id): (port, arrival_date) of the voyage's
\* entries, ORDER BY arrival_date ASC, which compares the stored texts;
\* equal texts come in the order of the ids.
get_voyage_entries(db, voyage_id) ==
    LET RECURSIVE OrderByArrivalAsc(_)
        OrderByArrivalAsc(rows) ==
            IF rows = {} THEN <<>>
            ELSE LET first == CHOOSE e \in rows :
                                 \A u \in rows :
                                    \/ TextLess(e.arrival_date, u.arrival_date)
                                    \/ (e.arrival_date = u.arrival_date /\ e.id <= u.id)
                 IN  <<[port |-> first.port, arrival_date |-> first.arrival_date]>>
                     \o OrderByArrivalAsc(rows \ {first})
    IN  OrderByArrivalAsc({e \in db.ens_entries : e.voyage_id = voyage_id})

\* date.fromordinal(n), the inverse of toordinal: orig_date + Timedelta.
fromordinal(n) ==
    LET y == CHOOSE y \in (n \div 366)..((n \div 365) + 1) :
                 toordinal(Date(y, 1, 1)) <= n /\ n < toordinal(Date(y + 1, 1, 1))
        m == CHOOSE m \in 1..12 :
                 /\ toordinal(Date(y, m, 1)) <= n
                 /\ n <= toordinal(Date(y, m, DaysInMonth(y, m)))
    IN  Date(y, m, n - toordinal(Date(y, m, 1)) + 1)

\* What a call of duplicate_voyage leaves: ret is "return" or "raise", value
\* the tuple returned or the exception.
Returned(db, seq, ok, msg) ==
    [ret |-> "return", ok |-> ok, value |-> msg, voyages |-> db.voyages,
     ens_entries |-> db.ens_entries, sqlite_sequence |-> seq]

\* duplicate_voyage(original_voyage_id, new_voyage_number, new_start_date_str)
\* on the tables db with the AUTOINCREMENT counters seq.  Dates have years of
\* four digits.  A stored date that strptime rejects raises ValueError in the
\* loop of line 251 unless it is the first of the sorted entries; nothing
\* has been committed then.
duplicate_voyage(db, seq, original_voyage_id, new_voyage_number, new_start_date_str) ==
    LET voyage_row == {v \in db.voyages : v.id = original_voyage_id}
        entries == get_voyage_entries(db, original_voyage_id)
    IN  IF voyage_row = {}
        THEN Returned(db, seq, FALSE, "Original voyage not found.")
        ELSE IF entries = <<>>
        THEN Returned(db, seq, FALSE, "Original voyage has no entries to clone.")
        ELSE IF ~strptime(entries[1].arrival_date).ok \/ ~strptime(new_start_date_str).ok
        THEN Returned(db, seq, FALSE, "Invalid date format.")
        ELSE IF \E i \in 1..Len(entries) : ~strptime(entries[i].arrival_date).ok
        THEN [Returned(db, seq, FALSE, "ValueError") EXCEPT !.ret = "raise"]
        ELSE
        LET v == CHOOSE v \in voyage_row : TRUE
            day_diff == toordinal(strptime(new_start_date_str))
                           - toordinal(strptime(entries[1].arrival_date))
            new_voyage_id == seq["voyages"] + 1
            NewDate(i) == isoformat(fromordinal(
                              toordinal(strptime(entries[i].arrival_date)) + day_diff))
        IN  [ret |-> "return", ok |-> TRUE, value |-> "Voyage cloned successfully.",
             voyages |-> db.voyages \cup
                 {Voyage(new_voyage_id, v.vessel_id, new_voyage_number, v.service_name)},
             ens_entries |-> db.ens_entries \cup
                 {EnsEntry(seq["ens_entries"] + i, new_voyage_id, entries[i].port,
                           NewDate(i), 0, NoText) : i \in 1..Len(entries)},
             sqlite_sequence |-> [seq EXCEPT !["voyages"] = new_voyage_id,
                                             !["ens_entries"] = @ + Len(entries)]]

\* ------------------------------------------------------------------------
\* Voyages with their entries, edited and cloned
\* ------------------------------------------------------------------------
\* The voyage number typed into the popups.
V266 == <<"V", "2", "6", "6">>

\* Arrival dates as add_ens_entry is given them: two padded ones, one that strptime
\* accepts without padding (9 March, which sorts after 10 March as text),
\* and one that strptime rejects.
StoredDates ==
    { <<"2", "0", "2", "4", "-", "0", "3", "-", "0", "1">>,
      <<"2", "0", "2", "4", "-", "0", "3", "-", "1", "0">>,
      <<"2", "0", "2", "4", "-", "3", "-", "9">>,
      <<"2", "0", "2", "4", "-", "0", "3", "-", "3", "2">> }

\* New start dates given to duplicate_voyage: 10 April and 31 April.
CloneDates ==
    { <<"2", "0", "2", "4", "-", "0", "4", "-", "1", "0">>,
      <<"2", "0", "2", "4", "-", "0", "4", "-", "3", "1">> }

\* add_ens_entry is called for an existing voyage; the date is stored as it
\* is passed, whatever its format.
AddDatedEntry ==
    /\ sqlite_sequence["ens_entries"] < MaxEntries
    /\ \E voyage_id \in {v.id : v \in voyages},
          port \in {GBLIV, <<"N", "L", "R", "T", "M">>},
          arrival_date \in StoredDates :
        LET r == add_ens_entry(voyage_id, port, arrival_date, NoText)
        IN  /\ ens_entries' = r.ens_entries
            /\ sqlite_sequence' = r.sqlite_sequence
    /\ UNCHANGED <<vessels, voyages>>
    /\ UNCHANGED listVars
    /\ UNCHANGED xmlVars

\* save_edit of the edit popup, opened from a row of the list: the entry is
\* updated, its voyage looked up and handed to update_voyage.  Only when
\* update_voyage returns are "Record Updated" shown, the list loaded again
\* and the popup closed.  The popup is saved with port GBFXT and 10 March,
\* the voyage number V266 and the service left empty or set to S2.
SaveEdit ==
    /\ \E row \in Range(get_voyages_with_details(Db)),
          new_service \in {NoText, <<"S", "2">>} :
        LET new_date == <<"2", "0", "2", "4", "-", "0", "3", "-", "1", "0">>
            entries == update_ens_entry(Db, row.entry_id, GBFXT, new_date, NoText)
            db1 == [Db EXCEPT !.ens_entries = entries]
            df == get_voyages_with_details(db1)
            found == {i \in 1..Len(df) : df[i].entry_id = row.entry_id}
        IN  /\ ens_entries' = entries
            /\ IF found # {}
               THEN LET r == update_voyage(db1, df[SetMin(found)].voyage_id,
                                           V266, new_service)
                    IN  /\ voyages' = r.voyages
                        /\ outcome' = [call |-> "save_edit", ret |-> "raise",
                                       ok |-> FALSE, msg |-> r.raised]
                        /\ tree' = tree
               ELSE /\ voyages' = voyages
                    /\ outcome' = [call |-> "save_edit", ret |-> "return",
                                   ok |-> TRUE, msg |-> "Record Updated"]
                    /\ tree' = load_voyages(db1, show_past)
    /\ UNCHANGED <<vessels, sqlite_sequence, today, show_past>>
    /\ UNCHANGED xmlVars

\* duplicate_voyage is called for a voyage id, a new number and a new start
\* date.
DuplicateVoyage ==
    /\ sqlite_sequence["voyages"] < MaxVoyages
    /\ \E original_voyage_id \in 1..MaxVoyages, new_start_date_str \in CloneDates :
        LET r == duplicate_voyage(Db, sqlite_sequence, original_voyage_id, V266,
                                  new_start_date_str)
        IN  /\ voyages' = r.voyages
            /\ ens_entries' = r.ens_entries
            /\ sqlite_sequence' = r.sqlite_sequence
            /\ outcome' = [call |-> "duplicate_voyage", ret |-> r.ret,
                           ok |-> r.ok, msg |-> r.value]
    /\ UNCHANGED <<vessels, today, show_past, tree>>
    /\ UNCHANGED xmlVars

\* One vessel with one voyage that has no entry yet.
InitVoyage ==
    /\ XmlIdle
    /\ ListEmpty
    /\ vessels = {Vessel(1, "ALPHA", Imo9123456)}
    /\ voyages = {Voyage(1, 1, V265, ServiceS1)}
    /\ ens_entries = {}
    /\ sqlite_sequence = [t \in Tables |-> IF t = "ens_entries" THEN 0 ELSE 1]

NextVoyage ==
    \/ AddDatedEntry
    \/ SaveEdit
    \/ DuplicateVoyage

SpecVoyage == InitVoyage /\ [][NextVoyage]_vars

\* ------------------------------------------------------------------------
\* Properties
\* ------------------------------------------------------------------------
DateValid == strptime(request.arrival_date_str).ok

\* The matching files under the directory being walked.
MatchingUnder(dir) == {f \in FilesUnder(dir) : IsXmlName(TreeFiles[f].name)}

IsDateEntry(e) == e.prefix = <<"Invalid date format">>

\* C1: a half-written file is never observable: every file on disk holds
\* its original content or a complete rewritten document, and a file whose
\* write failed still holds its original content.
C1_NoHalfWrittenFile ==
    \A f \in Files :
        /\ fs[f].pristine \/ fs[f].form = "xml"
        /\ file_state[f] = "WriteFailed" => fs[f].pristine

\* C2: when exactly one of the N matching files of a batch is not
\* well-formed (and nothing else goes wrong), the result shown has
\* updatedCount = N - 1 and exactly one error entry, which names that file.
C2_MalformedFileReported ==
    ( /\ pc = "done"
      /\ shown.shown
      /\ DateValid
      /\ faults = 0
      /\ settings_file # "list"
      /\ Cardinality({f \in Range(visit_log) : fs[f].form = "malformed"}) = 1 )
    => /\ shown.count = Cardinality(Range(visit_log)) - 1
       /\ Len(shown.errors) = 1
       /\ \E f \in Range(visit_log) :
            /\ fs[f].form = "malformed"
            /\ shown.errors[1].prefix = TreeFiles[f].name

\* C3: a well-formed file whose root is not in the declaration namespace is
\* not rewritten and not counted as updated.
C3_ForeignNamespaceUntouched ==
    \A f \in Files :
        (fs[f].form = "xml" /\ ~fs[f].nodes[1].ns)
        => fs[f].pristine /\ file_state[f] # "Rewritten"

\* C4: a step in which parsing a file fails leaves that file's content
\* exactly as it was.
C4_ParseFailureLeavesFile ==
    [][\A f \in Files :
          (visit_log' = Append(visit_log, f) /\ file_state'[f] = "ParseFailed")
          => fs'[f] = fs[f]]_vars

\* C4 witness: a file went through update_xml_file and failed to parse.
C4_Witness ==
    \E f \in Range(visit_log) : file_state[f] = "ParseFailed"

\* C5: the walk never stops early: while update_xml_directory runs, every
\* file under base_dir has been dealt with or is still to come, so at the
\* return every file has been dealt with; the handler never crashes on a
\* per-file failure.
C5_WalkNeverStopsEarly ==
    /\ (pc \in {"walk", "return"} /\ DateValid)
       => \A f \in FilesUnder(base_dir) :
             file_state[f] # "Unvisited" \/ f \in Range(queue)
    /\ pc = "crashed" => (target_dir \notin Dirs /\ visit_log = <<>>)

\* C5 witness: update_xml_directory has returned, a file failed (parse
\* failure, lookup failure or write failure) and a file visited after it
\* was rewritten.
C5_Witness ==
    /\ pc = "return"
    /\ \E i, j \in 1..Len(visit_log) :
        /\ i < j
        /\ file_state[visit_log[i]] \in {"ParseFailed", "WriteFailed", "Failed"}
        /\ file_state[visit_log[j]] = "Rewritten"
        /\ {visit_log[i], visit_log[j]} \subseteq FilesUnder(base_dir)

\* C6: when update_xml_directory returns, every matching file is accounted
\* exactly once: updatedCount plus the number of error entries is the number
\* of matching files, and updatedCount is the number of rewritten files.
C6_EveryFileAccountedOnce ==
    (pc = "return" /\ DateValid)
    => /\ updated_count + Len(errors) = Cardinality(MatchingUnder(base_dir))
       /\ updated_count =
            Cardinality({f \in MatchingUnder(base_dir) : file_state[f] = "Rewritten"})

\* C7: with an arrival date that does not parse, no file is opened, parsed
\* or written and nothing is counted as updated.
C7_InvalidDateTouchesNoFile ==
    (pc # "idle" /\ ~DateValid)
    => /\ visit_log = <<>>
       /\ \A f \in Files : fs[f].pristine /\ file_state[f] = "Unvisited"
       /\ updated_count = 0
       /\ total_count = 0
       /\ shown.count = 0

\* C7 witness: a batch with an unparseable date ran to its result.
C7_Witness ==
    pc = "done" /\ shown.shown /\ ~DateValid /\ FilesUnder(target_dir) # {}

\* C8: an invalid date is not an entry of the error list that is shown, and
\* it is reported at most once per run.
C8_InvalidDateReportedApart ==
    (pc = "done" /\ shown.shown /\ ~DateValid)
    => /\ \A i \in 1..Len(shown.errors) : ~IsDateEntry(shown.errors[i])
       /\ Cardinality({i \in 1..Len(shown.errors) : IsDateEntry(shown.errors[i])}) <= 1

\* C9: in every rewritten file, LodgingPerson/TIN and Carrier/TIN (where
\* present) hold GB243408284000 when the upper-cased port is GBLIV or GBFXT
\* and XI243408284000 otherwise.
C9_TinByPort ==
    \A f \in Files :
        file_state[f] = "Rewritten" =>
            LET doc == fs[f].nodes
                lodging == Find(doc, <<"LodgingPerson", "TIN">>)
                carrier == Find(doc, <<"Carrier", "TIN">>)
                expected == IF Upper(request.port) = GBLIV \/ Upper(request.port) = GBFXT
                            THEN TinGB ELSE TinXI
            IN  /\ lodging # 0 => doc[lodging].text = expected
                /\ carrier # 0 => doc[carrier].text = expected

\* C9 witness: a file with both TIN elements was rewritten for a port typed
\* in lower case, and both hold the GB identifier.
C9_Witness ==
    \E f \in Files :
        /\ file_state[f] = "Rewritten"
        /\ request.port # Upper(request.port)
        /\ Find(fs[f].nodes, <<"LodgingPerson", "TIN">>) # 0
        /\ Find(fs[f].nodes, <<"Carrier", "TIN">>) # 0
        /\ fs[f].nodes[Find(fs[f].nodes, <<"LodgingPerson", "TIN">>)].text = TinGB
        /\ fs[f].nodes[Find(fs[f].nodes, <<"Carrier", "TIN">>)].text = TinGB

\* A valid calendar date written as YYYY-MM-DD.
IsIsoDate(s) ==
    /\ Len(s) = 10
    /\ \A i \in {1, 2, 3, 4, 6, 7, 9, 10} : IsDigit(s[i])
    /\ s[5] = "-" /\ s[8] = "-"
    /\ strptime(s).ok

\* C10: for a valid date YYYY-MM-DD the formatted arrival time is the
\* digits YYYYMMDD followed by 0000, twelve digits in all.
C10_ArrivalIsTwelveDigits ==
    (pc \in {"walk", "return"} /\ IsIsoDate(request.arrival_date_str))
    => LET s == request.arrival_date_str
       IN  /\ formatted_date =
                <<s[1], s[2], s[3], s[4], s[6], s[7], s[9], s[10], "0", "0", "0", "0">>
           /\ Len(formatted_date) = 12

\* ------------------------------------------------------------------------
\* Properties of the update of one document
\* ------------------------------------------------------------------------
\* The step hands file f to update_xml_file.
Processes(f) == visit_log' = Append(visit_log, f)

\* The element at the end of the fixed path: the qualified names of steps
\* followed child by child from the declaration that is the document root or
\* the root's child.  0 when there is none.
FixedPath(doc, steps) ==
    IF doc[1].ns /\ doc[1].tag = "EntrySummaryDeclaration"
    THEN FirstMatch(doc, 1, steps)
    ELSE FirstMatch(doc, 1, <<"EntrySummaryDeclaration">> \o steps)

\* The document has one declaration only, directly below the root.
PlainShape(doc) ==
    /\ Len(doc) >= 2
    /\ {e \in 1..Len(doc) : doc[e].ns /\ doc[e].tag = "EntrySummaryDeclaration"} = {2}
    /\ doc[2].parent = 1

RefNumPath == <<"CustOfficeOfFirstEntry", "RefNum">>

\* C11: the reference number is looked up under the port exactly as passed.
\* Whenever a readable document is processed without an I/O fault and
\* settings.json is absent, unparsable or a JSON object, the file is
\* rewritten and counted and no error is recorded; in a document with a
\* single declaration below the root, RefNum becomes the mapping's entry
\* for the port if there is one and keeps its previous text otherwise.
C11_RefNumByExactPort ==
    [][\A f \in Files :
         (Processes(f) /\ fs[f].form = "xml" /\ faults' = faults
                       /\ settings_file # "list")
         => /\ file_state'[f] = "Rewritten"
            /\ updated_count' = updated_count + 1
            /\ errors' = errors
            /\ LET before == fs[f].nodes
                   after == fs'[f].nodes
                   n == FixedPath(before, RefNumPath)
                   mappings == load_settings(settings_file)
               IN  (PlainShape(before) /\ n # 0)
                   => /\ FixedPath(after, RefNumPath) # 0
                      /\ after[FixedPath(after, RefNumPath)].text =
                            IF request.port \in DOMAIN mappings
                            THEN mappings[request.port]
                            ELSE before[n].text]_vars

\* A lower-case port was passed while the mapping knows GBLIV: the file was
\* rewritten and RefNum still has its old text.
C11_Witness ==
    /\ file_state[TheFile] = "Rewritten"
    /\ settings_file = "object"
    /\ request.port = Lower(GBLIV)
    /\ fs[TheFile].form = "xml"
    /\ PlainShape(fs[TheFile].nodes)
    /\ FixedPath(fs[TheFile].nodes, RefNumPath) # 0
    /\ fs[TheFile].nodes[FixedPath(fs[TheFile].nodes, RefNumPath)].text = Old
    /\ errors = <<>>

\* The text an element at the fixed path has; NoText stands for no element.
TextAt(doc, steps) ==
    IF FixedPath(doc, steps) = 0 THEN NoText ELSE doc[FixedPath(doc, steps)].text

\* The six paths whose values the request determines.
RequestPaths ==
    { <<"ConveyanceRefNum">>, <<"IdeOfMeaOfTraCro">>, <<"DeclPlace">>,
      <<"CustOfficeOfFirstEntry", "ExpectedDateTimeOfArrival">>,
      <<"LodgingPerson", "TIN">>, <<"Carrier", "TIN">> }

\* YYYY-MM-DD without its dashes, followed by 0000.
TwelveDigits(iso) == SelectSeq(iso, LAMBDA c : c # "-") \o <<"0", "0", "0", "0">>

\* C12: in every rewritten document of the namespace that has the target
\* elements at the fixed paths from the root, ConveyanceRefNum holds the
\* voyage number, IdeOfMeaOfTraCro the vessel identifier, DeclPlace the port
\* as passed, ExpectedDateTimeOfArrival the twelve digits of the date and
\* both TIN elements the identifier selected by the port.
C12_FieldsAtFixedPaths ==
    \A f \in Files :
        (/\ file_state[f] = "Rewritten"
         /\ fs[f].form = "xml"
         /\ \A steps \in RequestPaths : FixedPath(fs[f].nodes, steps) # 0)
        => LET doc == fs[f].nodes
               tin == IF request.port \in {GBLIV, Lower(GBLIV), GBFXT, <<"G", "b", "F", "x", "T">>}
                      THEN TinGB ELSE TinXI
           IN  /\ TextAt(doc, <<"ConveyanceRefNum">>) = request.voyage_num
               /\ TextAt(doc, <<"IdeOfMeaOfTraCro">>) = request.imo
               /\ TextAt(doc, <<"DeclPlace">>) = request.port
               /\ TextAt(doc, <<"CustOfficeOfFirstEntry", "ExpectedDateTimeOfArrival">>)
                      = TwelveDigits(request.arrival_date_str)
               /\ TextAt(doc, <<"LodgingPerson", "TIN">>) = tin
               /\ TextAt(doc, <<"Carrier", "TIN">>) = tin

\* C13: processing a file again with the same request and the same mapping
\* changes nothing: a step that rewrites a file the run before had already
\* rewritten leaves the document as it was, texts and elements alike.
C13_SecondRunChangesNothing ==
    [][\A f \in Files :
         (Processes(f) /\ file_state[f] = "Rewritten" /\ file_state'[f] = "Rewritten")
         => fs'[f].nodes = fs[f].nodes]_vars

\* The file went through two runs without a fault and holds the Number
\* that the first run appended to Consignor, once.
C13_Witness ==
    /\ visit_log = <<TheFile, TheFile>>
    /\ faults = 0
    /\ file_state[TheFile] = "Rewritten"
    /\ fs[TheFile].form = "xml"
    /\ Cardinality({i \in 1..Len(fs[TheFile].nodes) :
                       /\ fs[TheFile].nodes[i].tag = "Number"
                       /\ fs[TheFile].nodes[i].text = NotAvailable}) = 1

\* How many elements of the document have the tag.
CountTag(doc, tag) == Cardinality({i \in 1..Len(doc) : doc[i].tag = tag})

TagsOf(doc) == {doc[i].tag : i \in 1..Len(doc)}

\* C14: a document that lacks CustOfficeOfFirstEntry, LodgingPerson,
\* Carrier, Consignor or Consignee is processed without error and counted,
\* and what is absent stays absent: the update adds no element except a
\* Number below a Consignor or Consignee that was already there.
C14_AbsentStaysAbsent ==
    [][\A f \in Files :
         (Processes(f) /\ fs[f].form = "xml" /\ faults' = faults
                       /\ settings_file # "list")
         => LET before == fs[f].nodes
                after == fs'[f].nodes
            IN  /\ fs'[f].form = "xml"
                /\ file_state'[f] = "Rewritten"
                /\ updated_count' = updated_count + 1
                /\ errors' = errors
                /\ \A tag \in (TagsOf(before) \cup TagsOf(after)) \ {"Number"} :
                        CountTag(after, tag) = CountTag(before, tag)
                /\ \A parent \in {"Consignor", "Consignee"} :
                        parent \notin TagsOf(before)
                        => \A i \in 1..Len(after) :
                              after[i].parent # 0 => after[after[i].parent].tag # parent
                /\ \A i \in 1..Len(after) :
                        (after[i].tag = "Number" /\ after[i].text = NotAvailable)
                        => after[after[i].parent].tag \in {"Consignor", "Consignee"}]_vars

\* A declaration without any optional substructure was rewritten and
\* counted, and still has none of them.
C14_Witness ==
    /\ file_state[TheFile] = "Rewritten"
    /\ fs[TheFile].form = "xml"
    /\ ~fs[TheFile].pristine
    /\ TagsOf(fs[TheFile].nodes) \cap
          {"CustOfficeOfFirstEntry", "LodgingPerson", "Carrier", "Consignor",
           "Consignee", "Number", "TIN", "RefNum"} = {}
    /\ "DeclPlace" \in TagsOf(fs[TheFile].nodes)
    /\ updated_count = 1
    /\ errors = <<>>

\* The seven paths whose text the update may change.
TargetPaths == RequestPaths \cup {RefNumPath}

\* The document without the elements at the indices in gone, with the
\* parent indices renumbered.
Renumbered(gone, j) == j - Cardinality({s \in gone : s < j})
Strip(doc, gone) ==
    [i \in 1..(Len(doc) - Cardinality(gone)) |->
        LET j == CHOOSE j \in (1..Len(doc)) \ gone : Renumbered(gone, j) = i
        IN  [doc[j] EXCEPT !.parent = Renumbered(gone, doc[j].parent)]]

\* C20: a rewrite changes nothing but the text of the elements at the seven
\* fixed paths from the root, and adds nothing but at most one Number as the
\* child of the Consignor and of the Consignee at their fixed paths: with
\* the added elements taken away, every element has the name, namespace and
\* parent it had, and every element that is not at a fixed path has the
\* text it had, wherever else an element of a target's name may lie.
C20_OnlyFixedPathsChange ==
    [][\A f \in Files :
         (Processes(f) /\ fs[f].form = "xml" /\ file_state'[f] = "Rewritten")
         => LET before == fs[f].nodes
                after == fs'[f].nodes
                targets == {FixedPath(before, steps) : steps \in TargetPaths}
                parents == {FixedPath(before, <<"Consignor">>),
                            FixedPath(before, <<"Consignee">>)} \ {0}
                numbers == {j \in 1..Len(after) : after[j].tag = "Number"}
            IN  \E added \in SUBSET numbers :
                   /\ Cardinality(added) = Len(after) - Len(before)
                   /\ \A j \in added :
                         /\ Renumbered(added, after[j].parent) \in parents
                         /\ \A k \in added : after[k].parent = after[j].parent => k = j
                   /\ \A i \in 1..Len(before) :
                         /\ Strip(after, added)[i].tag = before[i].tag
                         /\ Strip(after, added)[i].ns = before[i].ns
                         /\ Strip(after, added)[i].parent = before[i].parent
                         /\ i \notin targets
                            => Strip(after, added)[i].text = before[i].text]_vars

\* ------------------------------------------------------------------------
\* Properties of the walk and of the handler
\* ------------------------------------------------------------------------
\* The name ends in .xml, in any mix of cases.
EndsInDotXml(name) ==
    /\ Len(name) >= 4
    /\ name[Len(name) - 3] = "."
    /\ name[Len(name) - 2] \in {"x", "X"}
    /\ name[Len(name) - 1] \in {"m", "M"}
    /\ name[Len(name)] \in {"l", "L"}

\* C15: when update_xml_directory returns (the date being valid), every
\* file at any depth under base_dir whose name ends in .xml, whatever the
\* case, has been handed to update_xml_file; a file with another name is
\* never handed to it and keeps its content.
C15_XmlFilesAtAnyDepthOnly ==
    /\ (pc = "return" /\ DateValid)
       => \A f \in FilesUnder(base_dir) :
             EndsInDotXml(TreeFiles[f].name) => f \in Range(visit_log)
    /\ \A f \in Files :
          ~EndsInDotXml(TreeFiles[f].name)
          => /\ f \notin Range(visit_log)
             /\ fs[f].pristine
             /\ file_state[f] \in {"Unvisited", "Skipped"}

\* The walk of a directory has returned after processing a file with an
\* upper-case extension in a subdirectory and passing over a text file.
C15_Witness ==
    /\ pc = "return"
    /\ \E f \in Range(visit_log) :
          /\ Len(TreeFiles[f].dir) > Len(base_dir)
          /\ IsPrefix(base_dir, TreeFiles[f].dir)
          /\ ~EndsWith(TreeFiles[f].name, DotXml)
    /\ \E g \in FilesUnder(base_dir) :
          /\ ~EndsInDotXml(TreeFiles[g].name)
          /\ file_state[g] = "Skipped"

\* The file lies under one of the selected folders of the target directory.
UnderSelection(f) ==
    \E i \in 1..Len(selected_folders) :
        IsPrefix(PathJoin(target_dir, selected_folders[i]), TreeFiles[f].dir)

\* The files whose processing raised, in the order they were visited.
RaisedInOrder ==
    SelectSeq(visit_log, LAMBDA f : file_state[f] \in {"WriteFailed", "Failed"})

\* C16: in a run over selected subdirectories the count shown is the sum of
\* the folders' counts (the number of files rewritten under them), the
\* errors shown are the folders' errors one after the other in the order of
\* the visits, and no file outside the selected folders is visited or
\* modified.
C16_ScopedMergeAndFrame ==
    /\ selected_folders # <<>>
       => \A f \in Files :
             ~UnderSelection(f) => (fs[f].pristine /\ file_state[f] = "Unvisited")
    /\ (selected_folders # <<>> /\ pc = "done" /\ shown.shown /\ DateValid)
       => /\ shown.count = Cardinality({f \in Files : file_state[f] = "Rewritten"})
          /\ Len(shown.errors) = Len(RaisedInOrder)
          /\ \A i \in 1..Len(RaisedInOrder) :
                shown.errors[i].prefix = TreeFiles[RaisedInOrder[i]].name

\* Two folders were selected; files were rewritten under both of them and
\* an error of the first folder is shown together with the total.
C16_Witness ==
    /\ pc = "done"
    /\ shown.shown
    /\ Len(selected_folders) = 2
    /\ \A i \in 1..2 :
          \E f \in Files :
             /\ IsPrefix(PathJoin(target_dir, selected_folders[i]), TreeFiles[f].dir)
             /\ file_state[f] = "Rewritten"
    /\ shown.count >= 2
    /\ Len(shown.errors) = 1
    /\ \E f \in Files :
          /\ IsPrefix(PathJoin(target_dir, selected_folders[1]), TreeFiles[f].dir)
          /\ shown.errors[1].prefix = TreeFiles[f].name
          /\ file_state[f] \in {"WriteFailed", "Failed"}

\* C17: a target directory that does not exist is tolerated: whether the
\* user chooses to go on or not, the handler does not raise, no file is
\* touched, nothing is counted and no error is listed.
C17_MissingDirectoryTolerated ==
    target_dir \notin Dirs
    => /\ pc # "crashed"
       /\ visit_log = <<>>
       /\ \A f \in Files : fs[f].pristine
       /\ shown.count = 0
       /\ shown.errors = <<>>

\* ------------------------------------------------------------------------
\* Properties of the voyage list
\* ------------------------------------------------------------------------
\* The entry's voyage exists and so does that voyage's vessel.
Attached(e) ==
    \E v \in voyages :
        /\ v.id = e.voyage_id
        /\ \E ves \in vessels : ves.id = v.vessel_id

\* C19: whatever vessels, voyages and entries were added and deleted,
\* get_voyages_with_details returns one row for every ENS entry whose voyage
\* and that voyage's vessel both exist and no other row: a voyage without
\* entries and a voyage whose vessel was deleted appear in no row, and every
\* row carries the id of an entry.
C19_OneRowPerAttachedEntry ==
    LET rows == get_voyages_with_details(Db)
        RowsOfEntry(id) == {i \in 1..Len(rows) : rows[i].entry_id = id}
        RowsOfVoyage(id) == {i \in 1..Len(rows) : rows[i].voyage_id = id}
    IN  /\ \A e \in ens_entries :
              Cardinality(RowsOfEntry(e.id)) = IF Attached(e) THEN 1 ELSE 0
        /\ \A i \in 1..Len(rows) : \E e \in ens_entries : e.id = rows[i].entry_id
        /\ \A v \in voyages :
              (\A e \in ens_entries : e.voyage_id # v.id) => RowsOfVoyage(v.id) = {}
        /\ \A v \in voyages :
              (\A ves \in vessels : ves.id # v.vessel_id) => RowsOfVoyage(v.id) = {}

\* One voyage is listed with its entry; another voyage has an entry too,
\* but its vessel was deleted.
C19_Witness ==
    /\ Len(get_voyages_with_details(Db)) = 1
    /\ \E v \in voyages :
          /\ \A ves \in vessels : ves.id # v.vessel_id
          /\ v.vessel_id <= sqlite_sequence["vessels"]
          /\ \E e \in ens_entries : e.voyage_id = v.id

\* The entry a row of the list stands for.
EntryOf(row) == CHOOSE e \in ens_entries : e.id = row.iid

\* C18: every row of the loaded list has the tag of the alert rule: a
\* declared entry is "completed"; an undeclared entry is "urgent" when it
\* arrives in two days or less (today and past days included), "warning"
\* when it arrives in three to five days and "completed" when later; and
\* the tag is the one the reference get_tag gives for the same entry.
C18_AlertTag ==
    \A i \in 1..Len(tree) :
        LET e == EntryOf(tree[i])
            arrival == to_date(e.arrival_date)
        IN  /\ tree[i].tag = get_tag(arrival, e.is_declared = 1, today)
            /\ e.is_declared = 1 => tree[i].tag = "completed"
            /\ e.is_declared = 0 =>
                 \A n \in (0 - MaxDaysPast - 1)..(MaxDaysAhead + 1) :
                    arrival = DaysFrom(today, n)
                    => tree[i].tag = IF n <= 2 THEN "urgent"
                                     ELSE IF n <= 5 THEN "warning"
                                     ELSE "completed"
            /\ \E n \in (0 - MaxDaysPast - 1)..(MaxDaysAhead + 1) :
                    arrival = DaysFrom(today, n)

\* The list shows an undeclared entry that arrives the day after tomorrow,
\* in the next month, as urgent.
C18_Witness ==
    \E i \in 1..Len(tree) :
        /\ EntryOf(tree[i]).is_declared = 0
        /\ to_date(tree[i].arrival_date) = DaysFrom(today, 2)
        /\ to_date(tree[i].arrival_date).month # today.month
        /\ tree[i].tag = "urgent"

\* ------------------------------------------------------------------------
\* Number below Consignor and Consignee
\* ------------------------------------------------------------------------
\* The Number elements of the namespace below the elements with the tag.
NumbersBelow(doc, tag) ==
    {i \in 1..Len(doc) :
        /\ doc[i].ns /\ doc[i].tag = "Number" /\ doc[i].parent # 0
        /\ doc[doc[i].parent].ns /\ doc[doc[i].parent].tag = tag}

\* The texts of the Number children of element n, in document order.
RECURSIVE NumberTexts(_, _, _)
NumberTexts(doc, n, from) ==
    LET rest == {i \in ChildrenNamed(doc, n, "Number") : i >= from}
    IN  IF rest = {} THEN <<>>
        ELSE <<doc[SetMin(rest)].text>> \o NumberTexts(doc, n, SetMin(rest) + 1)

\* C21: however often a file is processed, Consignor and Consignee get at
\* most one Number more than the original had: a step that rewrites a file
\* adds at most one Number per parent and none when the file had been
\* rewritten before; a located parent that had no Number child of the
\* namespace gets exactly one, with the text N/A, as its last child; a
\* located parent that had one keeps its Number children and their texts.
C21_NumberEnsuredOnce ==
    [][\A f \in Files :
         (Processes(f) /\ fs[f].form = "xml" /\ fs'[f].form = "xml"
                       /\ file_state'[f] = "Rewritten")
         => LET before == fs[f].nodes
                after == fs'[f].nodes
            IN  \A tag \in {"Consignor", "Consignee"} :
                   LET p == Find(before, <<tag>>)
                       q == Find(after, <<tag>>)
                       nb == Cardinality(NumbersBelow(before, tag))
                       na == Cardinality(NumbersBelow(after, tag))
                   IN  /\ na >= nb /\ na <= nb + 1
                       /\ file_state[f] = "Rewritten" => na = nb
                       /\ p = 0 => na = nb
                       /\ (p # 0 /\ ChildrenNamed(before, p, "Number") = {})
                          => /\ q # 0
                             /\ ChildrenNamed(after, q, "Number") = {SubtreeEnd(after, q)}
                             /\ after[SubtreeEnd(after, q)].text = NotAvailable
                             /\ na = nb + 1
                       /\ (p # 0 /\ ChildrenNamed(before, p, "Number") # {})
                          => /\ q # 0
                             /\ NumberTexts(after, q, 1) = NumberTexts(before, p, 1)
                             /\ na = nb]_vars

\* The complete declaration went through two runs: Consignor, which had a
\* Name only, ends with a single Number N/A after the Name, and the Number
\* Consignee had still reads as before.
C21_Witness ==
    /\ visit_log = <<TheFile, TheFile>>
    /\ fs[TheFile].form = "xml"
    /\ file_state[TheFile] = "Rewritten"
    /\ LET doc == fs[TheFile].nodes
           cr == Find(doc, <<"Consignor">>)
           ce == Find(doc, <<"Consignee">>)
       IN  /\ Len(doc) = Len(FullDoc) + 1
           /\ cr # 0 /\ ce # 0
           /\ doc[cr + 1].tag = "Name"
           /\ NumberTexts(doc, cr, 1) = <<NotAvailable>>
           /\ doc[SubtreeEnd(doc, cr)].tag = "Number"
           /\ NumberTexts(doc, ce, 1) = <<Old>>

\* ------------------------------------------------------------------------
\* The walk: error entries, order, coverage
\* ------------------------------------------------------------------------
\* The path of a file: its directory followed by its name.
PathOf(f) == Append(TreeFiles[f].dir, TreeFiles[f].name)

\* C22: every error entry names the failing file by its path: the entries
\* shown for two different files that failed differ from each other, also
\* when the two files have the same name in different subdirectories.
C22_ErrorEntriesNamePaths ==
    (pc = "done" /\ shown.shown /\ DateValid
        /\ Len(shown.errors) = Len(RaisedInOrder))
    => \A i, j \in 1..Len(RaisedInOrder) :
          PathOf(RaisedInOrder[i]) # PathOf(RaisedInOrder[j])
          => shown.errors[i] # shown.errors[j]

\* The matching files of a walk, in the order of the walk.
XmlOnly(walk) == SelectSeq(walk, LAMBDA f : IsXmlName(TreeFiles[f].name))

\* The orders of visits that walking the directories one after the other
\* can take.
RECURSIVE VisitsOfChain(_)
VisitsOfChain(dirs) ==
    IF dirs = <<>> THEN {<<>>}
    ELSE {XmlOnly(w) \o rest : w \in WalkOrders(Head(dirs)),
                               rest \in VisitsOfChain(Tail(dirs))}

\* The orders of visits the run can take over the same tree with the same
\* folders selected: os.listdir and os.walk list a directory in the order
\* the file system gives.
PossibleVisits ==
    IF selected_folders = <<>> THEN VisitsOfChain(<<target_dir>>)
    ELSE UNION {VisitsOfChain([i \in 1..Len(sel) |-> PathJoin(target_dir, sel[i])]) :
                   sel \in Orders(Range(selected_folders))}

\* C23: the order of the visits, and with it the order of the error
\* entries, is a function of the paths of the tree alone: the order a
\* finished run took is the only one a run over this tree with these
\* folders can take.
C23_VisitOrderFromPathsAlone ==
    (pc = "done" /\ shown.shown /\ DateValid /\ target_dir \in Dirs)
    => \A v \in PossibleVisits : visit_log = v

\* The files one invocation is to process: the matching files under the
\* selected folders, or under the target directory when the walk is not
\* scoped.
InScope(f) ==
    /\ IsXmlName(TreeFiles[f].name)
    /\ IF selected_folders = <<>> THEN IsPrefix(target_dir, TreeFiles[f].dir)
       ELSE UnderSelection(f)

\* C25: within one invocation, unscoped or over selected subdirectories, no
\* file is handed to update_xml_file twice, and when the run has finished
\* every matching file in scope has been handed to it.
C25_EachMatchingFileOnce ==
    /\ \A i, j \in 1..Len(visit_log) : i # j => visit_log[i] # visit_log[j]
    /\ (pc = "done" /\ shown.shown /\ DateValid /\ target_dir \in Dirs)
       => Range(visit_log) = {f \in Files : InScope(f)}

\* A finished run over two selected folders that visited three files, one
\* of them two levels below the target directory.
C25_Witness ==
    /\ pc = "done"
    /\ shown.shown
    /\ Len(selected_folders) = 2
    /\ Len(visit_log) = 3
    /\ \E i \in 1..3 : Len(TreeFiles[visit_log[i]].dir) = Len(target_dir) + 2

\* C27: a run with every immediate subdirectory selected does what one
\* walk of the target directory does: it visits every matching file under
\* the target directory, those lying directly in it included, and the count
\* shown is the number of files rewritten among them.
C27_AllSelectedEqualsUnscoped ==
    (pc = "done" /\ shown.shown /\ DateValid /\ target_dir \in Dirs
        /\ selected_folders # <<>>
        /\ Range(selected_folders) = SubdirNames(target_dir))
    => /\ Range(visit_log) = MatchingUnder(target_dir)
       /\ shown.count = Cardinality({f \in MatchingUnder(target_dir) :
                                        file_state[f] = "Rewritten"})

\* C26: the files one batch rewrites get the same resolved values: two
\* files of the batch that were rewritten and have a RefNum at the fixed path
\* hold the same reference number, also when the port mapping is edited
\* while the batch runs.
C26_OneRefNumPerBatch ==
    \A f, g \in Range(visit_log) :
        (/\ file_state[f] = "Rewritten" /\ file_state[g] = "Rewritten"
         /\ fs[f].form = "xml" /\ fs[g].form = "xml"
         /\ FixedPath(fs[f].nodes, RefNumPath) # 0
         /\ FixedPath(fs[g].nodes, RefNumPath) # 0)
        => TextAt(fs[f].nodes, RefNumPath) = TextAt(fs[g].nodes, RefNumPath)

\* ------------------------------------------------------------------------
\* Editing and cloning voyages
\* ------------------------------------------------------------------------
\* C28: update_voyage on an existing voyage returns normally, so save_edit
\* always goes on to show "Record Updated", to load the list again and to
\* close the popup: a save_edit never ends in an exception.
C28_SaveEditReportsSuccess ==
    outcome.call = "save_edit"
    => (outcome.ret = "return" /\ outcome.ok /\ outcome.msg = "Record Updated")

\* C29: when duplicate_voyage fails, because the original is not found, has
\* no entries or a date is not in YYYY-MM-DD format, it returns (False,
\* message) and the database is as it was.
C29_FailedCloneReturnsFalse ==
    [][(outcome' # outcome /\ outcome'.call = "duplicate_voyage" /\ ~outcome'.ok)
       => /\ outcome'.ret = "return"
          /\ outcome'.msg \in {"Original voyage not found.",
                                "Original voyage has no entries to clone.",
                                "Invalid date format."}
          /\ UNCHANGED dbVars]_vars

\* The day number of a stored date.
DayOf(e) == toordinal(strptime(e.arrival_date))

\* C24: a successful duplicate_voyage adds one voyage with the vessel and
\* the service of the original and the new number, and one undeclared entry
\* per original entry with the same port and the date shifted by (new start
\* date - earliest original date): the earliest new entry falls on the new
\* start date and the day offsets are kept.  The original voyage and its
\* entries stay as they were.
C24_CloneShiftsFromEarliest ==
    [][(outcome'.call = "duplicate_voyage" /\ outcome'.ok /\ voyages' # voyages)
       => /\ voyages \subseteq voyages'
          /\ ens_entries \subseteq ens_entries'
          /\ \E nv \in voyages' \ voyages, o \in voyages :
                LET E == {e \in ens_entries : e.voyage_id = o.id}
                    N == ens_entries' \ ens_entries
                    earliest == SetMin({DayOf(e) : e \in E})
                IN  /\ voyages' = voyages \cup {nv}
                    /\ nv.vessel_id = o.vessel_id
                    /\ nv.service_name = o.service_name
                    /\ nv.voyage_number = V266
                    /\ E # {}
                    /\ \A n \in N : n.voyage_id = nv.id /\ n.is_declared = 0
                    /\ \E start \in {d \in CloneDates : strptime(d).ok} :
                          \E b \in [E -> N] :
                             /\ \A n \in N : \E e \in E : b[e] = n
                             /\ \A e1, e2 \in E : b[e1] = b[e2] => e1 = e2
                             /\ \A e \in E :
                                   /\ b[e].port = e.port
                                   /\ DayOf(b[e]) - DayOf(e)
                                         = toordinal(strptime(start)) - earliest]_vars

\* ------------------------------------------------------------------------
\* The vessel table
\* ------------------------------------------------------------------------
\* C30: after any sequence of add_vessel and delete_vessel no two vessels
\* have the same name: add_vessel with a name the table holds returns
\* (False, "Vessel with this name already exists.") and leaves the table as
\* it is, and delete_vessel of a name the table does not hold returns
\* (False, "Vessel not found.") and changes nothing.
C30_VesselNamesUnique ==
    /\ \A v, w \in vessels : v.name = w.name => v = w
    /\ \A name \in VesselNames :
          IF \E v \in vessels : v.name = name
          THEN LET r == add_vessel(name, Imo9123456)
               IN  /\ ~r.ok
                   /\ r.msg = "Vessel with this name already exists."
                   /\ r.vessels = vessels
                   /\ r.sqlite_sequence = sqlite_sequence
          ELSE LET r == delete_vessel(name)
               IN  /\ ~r.ok
                   /\ r.msg = "Vessel not found."
                   /\ r.vessels = vessels

\* ALPHA was added, deleted and added again: the table holds it once, under
\* its second id, and does not hold BETA.
C30_Witness ==
    /\ vessels = {Vessel(2, "ALPHA", Imo9123456)}
    /\ sqlite_sequence["vessels"] = 2

====
